---- MODULE Spec2Model ----
(***************************************************************************)
(* Dual-backend data layer of recettes-app: the unified data service       *)
(* (dataService.ts), the IndexedDB adapter (storage.ts) and the GitHub     *)
(* contents-API adapter (githubStorage.ts) with its read-modify-write      *)
(* helpers and the saveData retry loop.                                    *)
(*                                                                         *)
(* Every await of the code is a step boundary: one action is the code      *)
(* between two awaits of one call.  The remote host, its HTTP cache in the *)
(* browser and the other writers of the repository are the environment.    *)
(***************************************************************************)
EXTENDS Integers, Sequences, FiniteSets, TLC

\* ---------------------------------------------------------------- bounds
\* data-service calls started in one behaviour with other writers and failures
MaxCalls == 1
\* data-service calls started in one behaviour of a client that is alone
MaxSoloCalls == 2
\* events of the environment in one behaviour: writes of other writers and
\* failing HTTP requests
MaxEvents == 3
\* settings actions in one behaviour: changes of the stored configuration,
\* cache clears, emptying of the repository
MaxCfg == 1
\* export, import, migration and read calls started in one behaviour
MaxPortCalls == 3
\* readings of the clock in one behaviour
MaxClock == 4

\* ------------------------------------------------------------- constants
DefaultMaxRetries == 3
HelperMaxRetries == 3
InnerMaxRetries == 1
SaveDataBaseDelay == 100
HelperBaseDelay == 150
\* exportAllData: version: 1
ExportVersion == 1

Ids == {1, 2}
FILES == {"recipes", "metadata", "planning", "shoppingLists"}
\* `${DATA_PATH}/.gitkeep`, the marker of the data folder
Marker == ".gitkeep"
PATHS == FILES \cup {Marker}
\* variant: the planning written before the metadata
ImportOrderSwapped == <<"recipes", "planning", "metadata", "shoppingLists">>
\* importAllData writes the datasets in this order
ImportOrder == <<"recipes", "metadata", "planning", "shoppingLists">>
ValA(f) == IF f = "metadata" THEN "to-test" ELSE "a"
ValB(f) == IF f = "metadata" THEN "validated" ELSE "b"
\* slot 1 runs the call of the application, slot 1 + i the default-metadata
\* save that getAllRecipesWithMeta starts for recipe i
Slots == {1} \cup {1 + i : i \in Ids}
KidSlot(i) == 1 + i

\* ------------------------------------------------------------ data values
NoRec == [id |-> 0, val |-> "-"]
Rec(i, v) == [id |-> i, val |-> v]

RECURSIVE Pow2(_)
Pow2(n) == IF n = 0 THEN 1 ELSE 2 * Pow2(n - 1)

\* JSON.stringify(data, null, 2): the text of a document holding the array
Stringify(arr) == [json |-> TRUE, arr |-> arr]
NoText == [json |-> FALSE, arr |-> <<>>]
\* variant: a tolerant parse that recovers the records of a text that is
\* not JSON
ParseWhatIsThere(text) == text.arr

\* JSON.parse inside getData: the array, or [] when the text is not JSON
ParseOrEmpty(text) == IF text.json THEN text.arr ELSE <<>>

\* the version token of a file: the hash of its content (collision free)
NoSha == [def |-> FALSE, h |-> NoText]
ShaOf(text) == [def |-> TRUE, h |-> text]

\* GitHubFile | null
NullFile == [found |-> FALSE, content |-> NoText, sha |-> NoSha]
FileOf(text) == [found |-> TRUE, content |-> text, sha |-> ShaOf(text)]

IndexOf(arr, i) ==
  IF \E k \in 1..Len(arr) : arr[k].id = i
  THEN CHOOSE k \in 1..Len(arr) :
         arr[k].id = i /\ \A j \in 1..(k - 1) : arr[j].id # i
  ELSE 0

\* findIndex + replace in place, or push
Upsert(arr, r) ==
  IF IndexOf(arr, r.id) > 0
  THEN [arr EXCEPT ![IndexOf(arr, r.id)] = r]
  ELSE Append(arr, r)

\* filter(x => x.id !== id)
FilterOut(arr, i) == SelectSeq(arr, LAMBDA x : x.id # i)

\* find(x => x.id === id)
Find(arr, i) == IF IndexOf(arr, i) > 0 THEN arr[IndexOf(arr, i)] ELSE NoRec

IdsOf(arr) == {arr[k].id : k \in 1..Len(arr)}
NoDup(arr) == \A j, k \in 1..Len(arr) : arr[j].id = arr[k].id => j = k

\* ------------------------------------------------------------------- text
\* a string is the sequence of its characters
Digits == {"0", "1", "2", "3", "4", "5", "6", "7", "8", "9"}
DigitVal(c) ==
  CASE c = "0" -> 0 [] c = "1" -> 1 [] c = "2" -> 2 [] c = "3" -> 3
    [] c = "4" -> 4 [] c = "5" -> 5 [] c = "6" -> 6 [] c = "7" -> 7
    [] c = "8" -> 8 [] OTHER -> 9
\* the characters \s matches and trim() removes
WhiteSpace == {" ", "\t", "\n"}
Letters ==
  {"a", "b", "c", "d", "e", "f", "g", "h", "i", "j", "k", "l", "m", "n", "o",
   "p", "q", "r", "s", "t", "u", "v", "w", "x", "y", "z",
   "A", "B", "C", "D", "E", "F", "G", "H", "I", "J", "K", "L", "M", "N", "O",
   "P", "Q", "R", "S", "T", "U", "V", "W", "X", "Y", "Z"}
UpperCase ==
  <<"A", "B", "C", "D", "E", "F", "G", "H", "I", "J", "K", "L", "M", "N", "O",
    "P", "Q", "R", "S", "T", "U", "V", "W", "X", "Y", "Z", "À", "È", "É">>
LowerCase ==
  <<"a", "b", "c", "d", "e", "f", "g", "h", "i", "j", "k", "l", "m", "n", "o",
    "p", "q", "r", "s", "t", "u", "v", "w", "x", "y", "z", "à", "è", "é">>
Mapped(c, from, to) ==
  IF \E j \in 1..Len(from) : from[j] = c
  THEN to[CHOOSE j \in 1..Len(from) : from[j] = c]
  ELSE c
LowerChar(c) == Mapped(c, UpperCase, LowerCase)
UpperChar(c) == Mapped(c, LowerCase, UpperCase)
\* String.prototype.toLowerCase / toUpperCase
toLowerCase(s) == [j \in 1..Len(s) |-> LowerChar(s[j])]
toUpperCase(s) == [j \in 1..Len(s) |-> UpperChar(s[j])]

\* s.slice(a - 1, b - 1): the characters at positions a .. b - 1
Slice(s, a, b) == IF b <= a THEN <<>> ELSE SubSeq(s, a, b - 1)

\* String.prototype.trim
RECURSIVE TrimStart(_)
TrimStart(s) ==
  IF s # <<>> /\ Head(s) \in WhiteSpace THEN TrimStart(Tail(s)) ELSE s
RECURSIVE TrimEnd(_)
TrimEnd(s) ==
  IF s # <<>> /\ s[Len(s)] \in WhiteSpace THEN TrimEnd(SubSeq(s, 1, Len(s) - 1))
  ELSE s
trim(s) == TrimEnd(TrimStart(s))

\* s.startsWith(p) / s.endsWith(p) / s.includes(p)
startsWith(s, p) == Len(p) <= Len(s) /\ SubSeq(s, 1, Len(p)) = p
endsWith(s, p) == Len(p) <= Len(s) /\ SubSeq(s, Len(s) - Len(p) + 1, Len(s)) = p
includes(s, p) ==
  \E a \in 1..(Len(s) - Len(p) + 1) : SubSeq(s, a, a + Len(p) - 1) = p

\* ----------------------------------------------------- regular expressions
\* the patterns of the source as trees; a backtracking matcher gives, for a
\* pattern and a start position, the ways the pattern can match in the order
\* the engine tries them, so the first way is the match the engine reports
Chr(set) == [t |-> "chr", set |-> set]
NotChr(set) == [t |-> "nchr", set |-> set]
AnyChar == [t |-> "any"]
AllChar == [t |-> "all"]
Bos == [t |-> "bos"]
Eos == [t |-> "eos"]
Cat(items) == [t |-> "cat", items |-> items]
Alt(items) == [t |-> "alt", items |-> items]
Opt(r) == [t |-> "opt", r |-> r]
Star(r) == [t |-> "star", r |-> r]
LazyStar(r) == [t |-> "lazy", r |-> r]
Plus(r) == [t |-> "cat", items |-> <<r, [t |-> "star", r |-> r]>>]
Grp(n, r) == [t |-> "grp", n |-> n, r |-> r]
Lit(s) == [t |-> "cat", items |-> [j \in 1..Len(s) |-> [t |-> "chr", set |-> {s[j]}]]]
Ws == Chr(WhiteSpace)
Digit == Chr(Digits)

\* the groups of a match: start and end position of each, <<0, 0>> for a
\* group that took no part (no pattern of the source has more than three)
NoCaps == [n \in 1..3 |-> <<0, 0>>]

\* a pattern that takes one character, and whether it takes c
IsSingle(re) == re.t \in {"chr", "nchr", "any", "all"}
Takes(re, c) ==
  CASE re.t = "chr" -> c \in re.set
    [] re.t = "nchr" -> c \notin re.set
    [] re.t = "any" -> c # "\n"
    [] OTHER -> TRUE
Single(re, c, ci) ==
  IF re.t \in {"chr", "nchr"} /\ ci THEN Takes(re, LowerChar(c)) ELSE Takes(re, c)
\* how many characters from position i on a one-character pattern takes
RunLength(re, s, i, ci) ==
  CHOOSE n \in 0..(Len(s) + 1 - i) :
    /\ \A h \in i..(i + n - 1) : Single(re, s[h], ci)
    /\ i + n <= Len(s) => ~Single(re, s[i + n], ci)

\* the ways of a repetition that can take n characters from position i on:
\* the longest first when greedy, else the shortest first
Repeated(n, i, caps, greedy) ==
  [k \in 1..(n + 1) |->
     [pos |-> IF greedy THEN i + n + 1 - k ELSE i + k - 1, caps |-> caps]]
\* the ways of a group n entered at position i, from the ways of its pattern
Captured(inner, i, n) ==
  [j \in 1..Len(inner) |->
     [pos |-> inner[j].pos,
      caps |-> [inner[j].caps EXCEPT ![n] = <<i, inner[j].pos>>]]]

RECURSIVE Run(_, _, _, _, _)
RECURSIVE RunAll(_, _, _, _)
RECURSIVE RunCat(_, _, _, _)
\* pattern re on s from position i with the groups caps; ci: the i flag
Run(re, s, i, caps, ci) ==
  CASE IsSingle(re) ->
         IF i <= Len(s) /\ Single(re, s[i], ci)
         THEN <<[pos |-> i + 1, caps |-> caps]>> ELSE <<>>
    [] re.t = "bos" -> IF i = 1 THEN <<[pos |-> i, caps |-> caps]>> ELSE <<>>
    [] re.t = "eos" ->
         IF i = Len(s) + 1 THEN <<[pos |-> i, caps |-> caps]>> ELSE <<>>
    [] re.t = "cat" -> RunCat(re.items, s, <<[pos |-> i, caps |-> caps]>>, ci)
    [] re.t = "alt" ->
         IF re.items = <<>> THEN <<>>
         ELSE Run(Head(re.items), s, i, caps, ci)
                \o Run([t |-> "alt", items |-> Tail(re.items)], s, i, caps, ci)
    [] re.t = "opt" -> Run(re.r, s, i, caps, ci) \o <<[pos |-> i, caps |-> caps]>>
    [] re.t \in {"star", "lazy"} /\ IsSingle(re.r) ->
         Repeated(RunLength(re.r, s, i, ci), i, caps, re.t = "star")
    [] re.t = "star" /\ ~IsSingle(re.r) ->
         \* greedy: the longest repetition first
         RunAll(re, s, SelectSeq(Run(re.r, s, i, caps, ci),
                                 LAMBDA m : m.pos > i), ci)
           \o <<[pos |-> i, caps |-> caps]>>
    [] re.t = "lazy" /\ ~IsSingle(re.r) ->
         \* lazy: the shortest repetition first
         <<[pos |-> i, caps |-> caps]>>
           \o RunAll(re, s, SelectSeq(Run(re.r, s, i, caps, ci),
                                      LAMBDA m : m.pos > i), ci)
    [] OTHER -> Captured(Run(re.r, s, i, caps, ci), i, re.n)
\* pattern re continued from each of the ways ms, in their order
RunAll(re, s, ms, ci) ==
  IF ms = <<>> THEN <<>>
  ELSE IF Len(ms) = 1 THEN Run(re, s, ms[1].pos, ms[1].caps, ci)
  ELSE LET h == Len(ms) \div 2
       IN RunAll(re, s, SubSeq(ms, 1, h), ci)
            \o RunAll(re, s, SubSeq(ms, h + 1, Len(ms)), ci)
RunCat(items, s, ms, ci) ==
  IF items = <<>> \/ ms = <<>> THEN ms
  ELSE RunCat(Tail(items), s, RunAll(Head(items), s, ms, ci), ci)

\* RegExp exec from position i on: the leftmost start at which the pattern
\* matches, and there the first way
NoMatch == [found |-> FALSE, start |-> 0, end |-> 0, caps |-> NoCaps]
FirstWay(ways, a) ==
  [found |-> TRUE, start |-> a, end |-> ways[1].pos, caps |-> ways[1].caps]
Leftmost(starts) == CHOOSE j \in starts : \A h \in starts : j <= h
ExecAt(re, s, starts, ci) ==
  IF starts = {} THEN NoMatch
  ELSE FirstWay(Run(re, s, Leftmost(starts), NoCaps, ci), Leftmost(starts))
ExecFrom(re, s, i, ci) ==
  ExecAt(re, s, {j \in i..(Len(s) + 1) : Run(re, s, j, NoCaps, ci) # <<>>}, ci)
Exec(re, s, ci) == ExecFrom(re, s, 1, ci)
\* match[n]: the text of group n, undefined for a group that took no part
Took(m, n) == m.caps[n] # <<0, 0>>
Group(m, s, n) == Slice(s, m.caps[n][1], m.caps[n][2])

\* s.replace(/re/g, r): every match, left to right, replaced by r
RECURSIVE ReplaceAll(_, _, _, _)
ReplaceFrom(re, s, r, ci, m) ==
  IF ~m.found \/ m.end = m.start THEN s
  ELSE Slice(s, 1, m.start) \o r
         \o ReplaceAll(re, Slice(s, m.end, Len(s) + 1), r, ci)
ReplaceAll(re, s, r, ci) == ReplaceFrom(re, s, r, ci, Exec(re, s, ci))
\* s.replace(/re/, r): the first match replaced by r
Spliced(s, r, m) ==
  IF ~m.found THEN s
  ELSE Slice(s, 1, m.start) \o r \o Slice(s, m.end, Len(s) + 1)
ReplaceFirst(re, s, r, ci) == Spliced(s, r, Exec(re, s, ci))

\* ---------------------------------------------------------------- numbers
\* a JavaScript number: NaN, Infinity, or the fraction n / d in lowest terms
NaN == [k |-> "NaN", n |-> 0, d |-> 1]
Infinity == [k |-> "Infinity", n |-> 0, d |-> 1]
RECURSIVE Gcd(_, _)
Gcd(a, b) == IF b = 0 THEN a ELSE Gcd(b, a % b)
Num(n, d) ==
  LET g == Gcd(n, d)
  IN [k |-> "num", n |-> IF g = 0 THEN 0 ELSE n \div g,
      d |-> IF g = 0 THEN 1 ELSE d \div g]
IntNum(n) == Num(n, 1)
\* a + b and a / b on non-negative numbers
PlusNum(a, b) ==
  IF a.k = "NaN" \/ b.k = "NaN" THEN NaN
  ELSE IF a.k = "Infinity" \/ b.k = "Infinity" THEN Infinity
  ELSE Num(a.n * b.d + b.n * a.d, a.d * b.d)
DivNum(a, b) ==
  IF a.k = "NaN" \/ b.k = "NaN" THEN NaN
  ELSE IF a.k = "Infinity" THEN (IF b.k = "Infinity" THEN NaN ELSE Infinity)
  ELSE IF b.k = "Infinity" THEN IntNum(0)
  ELSE IF b.n = 0 THEN (IF a.n = 0 THEN NaN ELSE Infinity)
  ELSE Num(a.n * b.d, a.d * b.n)
\* x || y for a number x: NaN and 0 are falsy
OrNum(x, y) == IF x.k = "NaN" \/ (x.k = "num" /\ x.n = 0) THEN y ELSE x

\* the digits at the start of s, and their value
RECURSIVE DigitRun(_)
DigitRun(s) ==
  IF s # <<>> /\ Head(s) \in Digits THEN <<Head(s)>> \o DigitRun(Tail(s)) ELSE <<>>
RECURSIVE DigitsValue(_)
DigitsValue(ds) ==
  IF ds = <<>> THEN 0
  ELSE 10 * DigitsValue(SubSeq(ds, 1, Len(ds) - 1)) + DigitVal(ds[Len(ds)])
RECURSIVE Pow10(_)
Pow10(n) == IF n = 0 THEN 1 ELSE 10 * Pow10(n - 1)

\* parseInt(s): leading white space skipped, then the longest run of digits;
\* NaN without a digit (the texts parsed here carry no sign and no 0x)
parseInt(s) ==
  LET ds == DigitRun(TrimStart(s))
  IN IF ds = <<>> THEN NaN ELSE IntNum(DigitsValue(ds))
\* parseFloat(s): leading white space skipped, then digits, a point and
\* digits, as far as they go; NaN when neither part has a digit (the texts
\* parsed here carry no sign and no exponent)
parseFloat(s) ==
  LET t == TrimStart(s)
      ip == DigitRun(t)
      rest == Slice(t, Len(ip) + 1, Len(t) + 1)
      fp == IF rest # <<>> /\ Head(rest) = "." THEN DigitRun(Tail(rest)) ELSE <<>>
  IN IF ip = <<>> /\ fp = <<>> THEN NaN
     ELSE Num(DigitsValue(ip) * Pow10(Len(fp)) + DigitsValue(fp), Pow10(Len(fp)))

\* s without the characters of set at its start
RECURSIVE DropWhile(_, _)
DropWhile(s, set) ==
  IF s # <<>> /\ Head(s) \in set THEN DropWhile(Tail(s), set) ELSE s
\* s.split(sep) for a one-character separator given as a set of characters,
\* runs of separators counting as one when runs is TRUE (split(/\s+/))
RECURSIVE SplitOn(_, _, _)
SplitOn(s, seps, runs) ==
  IF \A j \in 1..Len(s) : s[j] \notin seps THEN <<s>>
  ELSE LET a == CHOOSE j \in 1..Len(s) :
                  s[j] \in seps /\ \A h \in 1..(j - 1) : s[h] \notin seps
           after == Slice(s, a + 1, Len(s) + 1)
           b == IF runs
                THEN Len(after) - Len(DropWhile(after, seps))
                ELSE 0
       IN <<Slice(s, 1, a)>> \o SplitOn(Slice(after, b + 1, Len(after) + 1), seps, runs)

\* ------------------------------------------------------------------ state
VARIABLES
  token,      \* localStorage['github-token']: "null", "" or a token
  remote,     \* the four documents on the host
  httpCache,  \* the browser's cached response of GET <path>?ref=<branch>
  shaCache,   \* the adapter's Map fileKey -> sha
  local,      \* the four IndexedDB object stores
  calls,      \* the data-service calls in flight, one per slot
  events,     \* calls started and environment events so far
  world,      \* "shared": other devices write and requests may fail;
              \* "alone": this client is the only writer of a healthy host
  clip,       \* the export bundle the user has kept (a backup file)
  book,       \* the clock of the device and the recipes as the recipes
              \* store has saved them, with their timestamps
  task        \* the computation of the page in progress (a shopping list
              \* being generated, a text being parsed, a recipe being
              \* imported): its input, its position and its result

vars == <<token, remote, httpCache, shaCache, local, calls, events, world, clip, book, task>>

Absent == "-"
NoFileRemote == [exists |-> FALSE, text |-> NoText]
\* IndexedDB getAll: the records of a store in key order
RECURSIVE SeqOfStore(_, _)
SeqOfStore(st, ids) ==
  IF ids = {} THEN <<>>
  ELSE LET m == CHOOSE x \in ids : \A y \in ids : x <= y
       IN (IF st[m] = Absent THEN <<>> ELSE <<Rec(m, st[m])>>)
          \o SeqOfStore(st, ids \ {m})
LocalArr(f) == SeqOfStore(local[f], Ids)
CurFile(f) == IF remote[f].exists THEN FileOf(remote[f].text) ELSE NullFile
RemoteArr(f) == IF remote[f].exists THEN ParseOrEmpty(remote[f].text) ELSE <<>>

\* ------------------------------------------------------------ operations
WriteOps == {"saveRecipe", "deleteRecipe", "saveMetadata", "savePlanningEntry",
             "deletePlanningEntry", "saveShoppingList", "deleteShoppingList"}
SaveOps == {"saveRecipe", "saveMetadata", "savePlanningEntry", "saveShoppingList"}
DeleteOps == WriteOps \ SaveOps
\* the helpers that carry their own retry loop around saveData(..., 1)
LoopOps == {"saveMetadata", "savePlanningEntry", "saveShoppingList",
            "createDefaultMetadata"}

OpKey(op) ==
  CASE op \in {"saveRecipe", "deleteRecipe"} -> "recipes"
    [] op \in {"saveMetadata", "createDefaultMetadata"} -> "metadata"
    [] op \in {"savePlanningEntry", "deletePlanningEntry"} -> "planning"
    [] OTHER -> "shoppingLists"

\* variant: every helper reads its array through the browser cache
ReadNoCacheNever(op) == FALSE

\* the noCache argument of the helper's own read of the array
ReadNoCache(op) == op \in LoopOps
\* the maxRetries the helper hands to saveData
SaveDataRetries(op) == IF op \in LoopOps THEN InnerMaxRetries ELSE DefaultMaxRetries
\* the helper's own attempts
HelperRetries(op) == IF op \in LoopOps THEN HelperMaxRetries ELSE 1
ReadOps == {"getAllRecipes", "getAllMetadata", "getPlanningForWeek", "getAllShoppingLists"}
\* the reads of one record: getAll...(config) then find(x => x.id === id)
ByIdOps == {"getRecipe", "getMetadata", "getShoppingList"}
ReadKey(op) ==
  CASE op \in {"getAllRecipes", "getRecipe"} -> "recipes"
    [] op \in {"getAllMetadata", "getMetadata"} -> "metadata"
    [] op = "getPlanningForWeek" -> "planning"
    [] OTHER -> "shoppingLists"

\* createDefaultMetadata: { id, status: 'to-test', tags: [], history: [] }
DefaultMetadata(i) == Rec(i, "to-test")

\* githubStorage.isGitHubConfigured / getGitHubConfig: !!token
isGitHubConfigured(t) == t # "null" /\ t # ""
getGitHubConfig(t) == IF t = "null" \/ t = "" THEN "null" ELSE t
getStorageMode(t) == IF isGitHubConfigured(t) THEN "github" ELSE "local"
\* variant: any stored string, the empty one included, selects the remote adapter
RouteStored(t) == IF t # "null" THEN "github" ELSE "local"

\* dataService: const config = getGitHubConfig(); if (config) github... else local...
Route(t) == IF getGitHubConfig(t) # "null" THEN "github" ELSE "local"

\* error messages; only the 409 message contains 'Conflit'
PutError(st) ==
  CASE st = 403 -> "Permission refusee"
    [] st = 404 -> "Branche ou repo non trouve"
    [] st = 409 -> "Conflit de version"
    [] OTHER -> "Erreur GitHub"
GetError(st) == "GitHub API error"
\* variant: getFile throws on every status that is not ok, 404 included
getFileStrict(st) == st = 200

\* getFile: 404 gives null, another status that is not ok throws
getFileOk(st) == st \in {200, 404}

\* variant: every error counts as a conflict
isConflictAny(msg) == msg # "none"

\* error.message.includes('Conflit')
isConflict(msg) == msg = "Conflit de version"

\* ----------------------------------------------------------- call records
Ev(kind, site, f, nc, sha, st, att, out) ==
  [kind |-> kind, site |-> site, key |-> f, nc |-> nc, sha |-> sha, st |-> st,
   att |-> att, out |-> out, base |-> NoSha, prev |-> NoFileRemote,
   data |-> <<>>, ms |-> 0]

Idle ==
  [op |-> "none", helper |-> "none", backend |-> "none", cfgTok |-> "null",
   pc |-> "idle",
   key |-> "none", id |-> 0, rec |-> NoRec, base |-> NullFile, data |-> <<>>,
   sha |-> NoSha, attempt |-> 0, maxR |-> 0, outer |-> 0, maxH |-> 0,
   pend |-> {},
   gotR |-> <<>>, gotM |-> <<>>, err |-> "none", parent |-> 0,
   res |-> NoRec, log |-> <<>>, pre |-> [f \in FILES |-> <<>>],
   bundle |-> [f \in FILES |-> <<>>], ver |-> 0, stage |-> 0,
   preL |-> [f \in FILES |-> <<>>]]

Budget == world = "shared" /\ events.env < MaxEvents
EnvEvent == [events EXCEPT !.env = @ + 1]

Logged(k, e) == [k EXCEPT !.log = Append(@, e)]
\* a rejection; the catch of migrateToGitHub turns it into the result
\* { success: false, error: e.message }
Reject(k, msg) ==
  IF k.op = "migrateToGitHub" THEN [k EXCEPT !.pc = "done", !.err = msg]
  ELSE [k EXCEPT !.pc = "failed", !.err = msg]

\* what follows a return of saveData in each helper
SaveDataReturn(k) ==
  IF k.helper = "deleteRecipe" /\ k.key = "recipes"
  THEN [k EXCEPT !.pc = "read", !.key = "metadata"]
  ELSE IF k.helper = "importAllData"
  THEN (IF k.stage < Len(ImportOrder)
        THEN [k EXCEPT !.stage = k.stage + 1,
                       !.key = ImportOrder[k.stage + 1],
                       !.data = k.bundle[ImportOrder[k.stage + 1]],
                       !.attempt = 0, !.sha = NoSha, !.pc = "sd_get"]
        ELSE [k EXCEPT !.pc = "done"])
  ELSE IF k.helper = "createDefaultMetadata"
       THEN [k EXCEPT !.pc = "done", !.res = k.rec]
       ELSE [k EXCEPT !.pc = "done"]

\* catch block of the single-record helpers (saveMetadata, savePlanningEntry,
\* saveShoppingList); the other helpers have no try and reject
HelperCatch(k, msg) ==
  IF k.helper \in LoopOps /\ isConflict(msg) /\ k.outer < k.maxH - 1
  THEN [k EXCEPT !.pc = "h_wait"]
  ELSE Reject(k, msg)

\* variant: the loop of saveData ends without rethrowing the last conflict
SaveDataCatchSwallow(k, msg) ==
  IF isConflict(msg)
  THEN (IF k.attempt < k.maxR - 1 THEN [k EXCEPT !.pc = "sd_wait"]
        ELSE SaveDataReturn(k))
  ELSE HelperCatch(k, msg)

\* catch block of saveData
SaveDataCatch(k, msg) ==
  IF isConflict(msg) /\ k.attempt < k.maxR - 1
  THEN [k EXCEPT !.pc = "sd_wait"]
  ELSE HelperCatch(k, msg)

\* saveData entered with the array to write: the for loop runs only when
\* attempt < maxRetries
EnterSaveData(k, arr, maxRetries) ==
  LET k1 == [k EXCEPT !.data = arr, !.attempt = 0, !.maxR = maxRetries,
                      !.sha = NoSha]
  IN IF 0 < maxRetries THEN [k1 EXCEPT !.pc = "sd_get"] ELSE SaveDataReturn(k1)

\* the array a helper writes, from the array it has read
Modify(k, arr) ==
  IF k.helper \in SaveOps \/ k.helper = "createDefaultMetadata"
  THEN Upsert(arr, k.rec)
  ELSE FilterOut(arr, k.id)

\* ------------------------------------------------------------- the host
GetFaults == {500}
PutFaults == {403, 404, 422}

\* the responses a GET of the document may get: the current version, the
\* response the browser cache holds for the URL (only when the URL carries
\* no cache buster), or a failure
GetResponses(f, nc) ==
  {[st |-> IF remote[f].exists THEN 200 ELSE 404, file |-> CurFile(f),
    cached |-> FALSE]}
  \cup (IF ~nc /\ httpCache[f].found
        THEN {[st |-> 200, file |-> httpCache[f], cached |-> TRUE]} ELSE {})
  \cup (IF Budget
        THEN {[st |-> s, file |-> NullFile, cached |-> FALSE] : s \in GetFaults}
        ELSE {})

\* effect of a GET on the browser cache and on the event count
NetGet(f, nc, r) ==
  /\ r \in GetResponses(f, nc)
  /\ httpCache' = IF ~nc /\ ~r.cached /\ r.st = 200
                  THEN [httpCache EXCEPT ![f] = r.file] ELSE httpCache
  /\ events' = IF r.st \in GetFaults THEN EnvEvent ELSE events

\* the statuses a PUT with this expected sha may get
HostStatuses(f, sha) ==
  IF ~remote[f].exists
  THEN (IF sha.def THEN {409} ELSE {201})
  ELSE IF ~sha.def THEN {409, 422}
       ELSE IF sha = ShaOf(remote[f].text) THEN {200} ELSE {409}
PutStatuses(f, sha) ==
  HostStatuses(f, sha) \cup (IF Budget THEN PutFaults ELSE {})

Accepted(st) == st \in {200, 201}

\* github.importAllData(config, data): the first of the four saveData calls
\* variant: the recipes of the bundle appended to the stored ones
ImportStartAppend(k, b) ==
  [k EXCEPT !.helper = "importAllData", !.bundle = b, !.stage = 1,
            !.key = ImportOrder[1],
            !.data = RemoteArr(ImportOrder[1]) \o b[ImportOrder[1]],
            !.attempt = 0, !.maxR = DefaultMaxRetries, !.sha = NoSha,
            !.pc = "sd_get"]

ImportStart(k, b) ==
  [k EXCEPT !.helper = "importAllData", !.bundle = b, !.stage = 1,
            !.key = ImportOrder[1], !.data = b[ImportOrder[1]],
            !.attempt = 0, !.maxR = DefaultMaxRetries, !.sha = NoSha,
            !.pc = "sd_get"]

\* ------------------------------------------------------------- actions
\* the call record a data-service function starts with: the configuration
\* is read once and the call is handed to one adapter
StartRecord(op, i, v, tok) ==
  LET b == Route(tok)
      k == [Idle EXCEPT !.op = op, !.helper = op, !.backend = b,
                        !.cfgTok = tok, !.id = i, !.maxH = HelperRetries(op)]
  IN IF op \in WriteOps
     THEN [k EXCEPT !.key = OpKey(op),
                    !.rec = IF op \in SaveOps THEN Rec(i, v) ELSE NoRec,
                    !.pc = IF b = "github" THEN "read"
                           ELSE IF op \in SaveOps THEN "l_put" ELSE "l_del"]
     ELSE IF op \in ReadOps
     THEN [k EXCEPT !.key = ReadKey(op), !.id = 0,
                    !.pc = IF b = "github" THEN "get" ELSE "l_get"]
     ELSE IF op \in ByIdOps
     THEN [k EXCEPT !.key = ReadKey(op),
                    !.pc = IF b = "github" THEN "get" ELSE "l_get"]
     ELSE IF op = "exportAllData"
     THEN [k EXCEPT !.id = 0, !.pend = FILES,
                    !.pc = IF b = "github" THEN "x_join" ELSE "l_export"]
     ELSE IF op = "importAllData"
     THEN (IF b = "github" THEN ImportStart([k EXCEPT !.id = 0], v)
           ELSE [k EXCEPT !.id = 0, !.bundle = v, !.pc = "l_import"])
     ELSE IF op = "migrateToGitHub"
     THEN (IF b = "github" THEN [k EXCEPT !.id = 0, !.pc = "m_export"]
           ELSE [k EXCEPT !.id = 0, !.pc = "done", !.err = "GitHub non configure"])
     ELSE IF op = "clearLocalData"
     THEN [k EXCEPT !.id = 0, !.backend = "local", !.pc = "l_clear"]
     ELSE [k EXCEPT !.pend = {"recipes", "metadata"},
                    !.id = IF op = "getRecipeWithMeta" THEN i ELSE 0,
                    !.pc = IF b = "github" THEN "join" ELSE "l_join"]

\* the four collections the adapter of backend b holds
StoreOf(b) == [f \in FILES |-> IF b = "github" THEN RemoteArr(f) ELSE LocalArr(f)]

\* dataService.<op>(...); pre records the collections at the call
Call(c, op, i, v) ==
  /\ c = 1
  /\ calls[c].pc = "idle"
  /\ op = "getAllRecipesWithMeta" => \A j \in Ids : calls[KidSlot(j)].pc = "idle"
  /\ calls' = [calls EXCEPT ![c] =
       [StartRecord(op, i, v, token) EXCEPT !.pre = StoreOf(Route(token)),
                                            !.preL = StoreOf("local")]]
  /\ events' = [events EXCEPT !.calls = @ + 1]
  /\ UNCHANGED <<token, remote, httpCache, shaCache, local, world, clip, book, task>>

\* the arguments the application calls an operation with
CallArgs(op) ==
  IF op \in SaveOps THEN {<<i, ValB(OpKey(op))>> : i \in Ids}
  ELSE IF op \in DeleteOps \/ op = "getRecipeWithMeta" THEN {<<i, "-">> : i \in Ids}
  ELSE {<<0, "-">>}

\* variant: a read that finds no file or fails forgets the cached token
ShaCacheAfterForget(f, r) ==
  IF r.st = 200 /\ r.file.found THEN [shaCache EXCEPT ![f] = r.file.sha]
  ELSE [shaCache EXCEPT ![f] = NoSha]

\* getData: shaCache.set(fileKey, file.sha) when the file exists
ShaCacheAfter(f, r) ==
  IF r.st = 200 /\ r.file.found THEN [shaCache EXCEPT ![f] = r.file.sha] ELSE shaCache

\* getData(config, key, noCache) of a write helper, then the change of the
\* array and the entry into saveData
Read(c) ==
  LET k == calls[c]
      nc == ReadNoCache(k.helper)
  IN /\ k.pc = "read"
     /\ \E r \in GetResponses(k.key, nc) :
          /\ NetGet(k.key, nc, r)
          /\ shaCache' = ShaCacheAfter(k.key, r)
          /\ LET k1 == Logged(k, Ev("GET", "read", k.key, nc, r.file.sha, r.st,
                                    k.attempt, k.outer))
             IN calls' = [calls EXCEPT ![c] =
                  IF getFileOk(r.st)
                  THEN EnterSaveData([k1 EXCEPT !.base = r.file],
                                     Modify(k1, ParseOrEmpty(r.file.content)),
                                     SaveDataRetries(k.helper))
                  ELSE HelperCatch(k1, GetError(r.st))]
     /\ UNCHANGED <<token, remote, local, world, clip, book, task>>

\* saveData: const existingFile = await getFile(config, path, true)
SdGet(c) ==
  LET k == calls[c]
  IN /\ k.pc = "sd_get"
     /\ \E r \in GetResponses(k.key, TRUE) :
          /\ NetGet(k.key, TRUE, r)
          /\ LET k1 == Logged(k, Ev("GET", "saveData", k.key, TRUE, r.file.sha, r.st,
                                    k.attempt, k.outer))
             IN calls' = [calls EXCEPT ![c] =
                  IF getFileOk(r.st)
                  THEN [k1 EXCEPT !.sha = r.file.sha, !.pc = "sd_put"]
                  ELSE SaveDataCatch(k1, GetError(r.st))]
     /\ UNCHANGED <<token, remote, shaCache, local, world, clip, book, task>>

\* variant: the expected prior version taken from shaCache
PutShaFromCache(k) == shaCache[k.key]

\* the expected prior version saveData hands to saveFile
PutSha(k) == k.sha

\* saveData: await saveFile(config, path, content, message, sha)
SdPut(c) ==
  LET k == calls[c]
      sha == PutSha(k)
  IN /\ k.pc = "sd_put"
     /\ \E st \in PutStatuses(k.key, sha) :
          LET e == [Ev("PUT", "saveData", k.key, FALSE, sha, st, k.attempt, k.outer)
                      EXCEPT !.base = k.base.sha, !.prev = remote[k.key],
                             !.data = k.data]
              k1 == Logged(k, e)
          IN /\ remote' = IF Accepted(st)
                          THEN [remote EXCEPT ![k.key] =
                                  [exists |-> TRUE, text |-> Stringify(k.data)]]
                          ELSE remote
             /\ events' = IF st \in HostStatuses(k.key, sha) THEN events ELSE EnvEvent
             /\ calls' = [calls EXCEPT ![c] =
                  IF Accepted(st) THEN [k1 EXCEPT !.pc = "sd_reget"]
                  ELSE SaveDataCatch(k1, PutError(st))]
     /\ UNCHANGED <<token, httpCache, shaCache, local, world, clip, book, task>>

\* saveData: const newFile = await getFile(config, path); shaCache.set; return
SdReget(c) ==
  LET k == calls[c]
  IN /\ k.pc = "sd_reget"
     /\ \E r \in GetResponses(k.key, FALSE) :
          /\ NetGet(k.key, FALSE, r)
          /\ shaCache' = ShaCacheAfter(k.key, r)
          /\ LET k1 == Logged(k, Ev("GET", "refresh", k.key, FALSE, r.file.sha, r.st,
                                    k.attempt, k.outer))
             IN calls' = [calls EXCEPT ![c] =
                  IF getFileOk(r.st) THEN SaveDataReturn(k1)
                  ELSE SaveDataCatch(k1, GetError(r.st))]
     /\ UNCHANGED <<token, remote, local, world, clip, book, task>>

\* saveData: the backoff timer 100 * 2^attempt, then the next attempt
SdWait(c) ==
  LET k == calls[c]
      e == [Ev("WAIT", "saveData", k.key, FALSE, NoSha, 0, k.attempt, k.outer)
              EXCEPT !.ms = SaveDataBaseDelay * Pow2(k.attempt)]
  IN /\ k.pc = "sd_wait"
     /\ calls' = [calls EXCEPT ![c] =
          [Logged(k, e) EXCEPT !.attempt = k.attempt + 1, !.pc = "sd_get"]]
     /\ UNCHANGED <<token, remote, httpCache, shaCache, local, events, world, clip, book, task>>

\* single-record helper: the backoff timer 150 * 2^attempt, then the next
\* attempt of the helper
HelperWait(c) ==
  LET k == calls[c]
      e == [Ev("WAIT", "helper", k.key, FALSE, NoSha, 0, k.attempt, k.outer)
              EXCEPT !.ms = HelperBaseDelay * Pow2(k.outer)]
  IN /\ k.pc = "h_wait"
     /\ calls' = [calls EXCEPT ![c] =
          [Logged(k, e) EXCEPT !.outer = k.outer + 1, !.pc = "read"]]
     /\ UNCHANGED <<token, remote, httpCache, shaCache, local, events, world, clip, book, task>>

\* getAllRecipes, getAllMetadata, getPlanningForWeek, getAllShoppingLists
Get(c) ==
  LET k == calls[c]
  IN /\ k.pc = "get"
     /\ \E r \in GetResponses(k.key, FALSE) :
          /\ NetGet(k.key, FALSE, r)
          /\ shaCache' = ShaCacheAfter(k.key, r)
          /\ LET k1 == Logged(k, Ev("GET", "get", k.key, FALSE, r.file.sha, r.st, 0, 0))
             IN calls' = [calls EXCEPT ![c] =
                  IF getFileOk(r.st)
                  THEN [k1 EXCEPT !.pc = "done",
                                  !.gotR = ParseOrEmpty(r.file.content),
                                  !.res = IF k.op \in ByIdOps
                                          THEN Find(ParseOrEmpty(r.file.content), k.id)
                                          ELSE @]
                  ELSE Reject(k1, GetError(r.st))]
     /\ UNCHANGED <<token, remote, local, world, clip, book, task>>

\* createDefaultMetadata(config, id) entered by a combined read
StartDefault(k, i) ==
  [k EXCEPT !.helper = "createDefaultMetadata", !.key = "metadata",
            !.rec = DefaultMetadata(i), !.id = i, !.outer = 0, !.attempt = 0,
            !.maxH = HelperRetries("createDefaultMetadata"),
            !.pc = IF k.backend = "github" THEN "read" ELSE "l_put"]

\* the recipes of the array that have no row in the metadata array
Missing(k) == {i \in IdsOf(k.gotR) : i \notin IdsOf(k.gotM)}

\* the code after the Promise.all of the two reads of a combined read
AfterJoin(cs, c) ==
  LET k == cs[c]
  IN IF k.err # "none" THEN [cs EXCEPT ![c] = Reject(k, k.err)]
     ELSE IF k.op = "getRecipeWithMeta"
     THEN [cs EXCEPT ![c] =
            IF Find(k.gotR, k.id) = NoRec THEN [k EXCEPT !.pc = "done", !.res = NoRec]
            ELSE IF Find(k.gotM, k.id) # NoRec
                 THEN [k EXCEPT !.pc = "done", !.res = Find(k.gotM, k.id)]
                 ELSE StartDefault(k, k.id)]
     ELSE IF Missing(k) = {} THEN [cs EXCEPT ![c] = [k EXCEPT !.pc = "done"]]
     ELSE [s \in Slots |->
            IF s = c THEN [k EXCEPT !.pc = "kids"]
            ELSE IF \E i \in Missing(k) : s = KidSlot(i)
                 THEN StartDefault([Idle EXCEPT !.op = "createDefaultMetadata",
                                                !.backend = k.backend,
                                                !.cfgTok = k.cfgTok, !.parent = c],
                                   s - 1)
                 ELSE cs[s]]

Got(k, f, arr) == IF f = "recipes" THEN [k EXCEPT !.gotR = arr] ELSE [k EXCEPT !.gotM = arr]

\* one of the two reads that getRecipeWithMeta / getAllRecipesWithMeta start
\* together answers; the last answer runs the code after the Promise.all
JoinRead(c, f) ==
  LET k == calls[c]
  IN /\ k.pc = "join"
     /\ f \in k.pend
     /\ \E r \in GetResponses(f, FALSE) :
          /\ NetGet(f, FALSE, r)
          /\ shaCache' = ShaCacheAfter(f, r)
          /\ LET k1 == Logged(k, Ev("GET", "get", f, FALSE, r.file.sha, r.st, 0, 0))
                 k2 == [k1 EXCEPT !.pend = @ \ {f}]
                 k3 == IF getFileOk(r.st)
                       THEN Got(k2, f, ParseOrEmpty(r.file.content))
                       ELSE [k2 EXCEPT !.err = IF @ = "none" THEN GetError(r.st) ELSE @]
                 cs == [calls EXCEPT ![c] = k3]
             IN calls' = IF k3.pend = {} THEN AfterJoin(cs, c) ELSE cs
     /\ UNCHANGED <<token, remote, local, world, clip, book, task>>

Kids(c) == {s \in Slots : calls[s].parent = c /\ calls[s].pc # "idle"}

\* Promise.all of the default-metadata saves: rejects with the first
\* rejection, resolves when all have resolved
KidsSettle(c) ==
  LET k == calls[c]
  IN /\ k.pc = "kids"
     /\ \/ \E s \in Kids(c) : /\ calls[s].pc = "failed"
                              /\ calls' = [calls EXCEPT ![c] = Reject(k, calls[s].err)]
        \/ /\ \A s \in Kids(c) : calls[s].pc = "done"
           /\ calls' = [calls EXCEPT ![c] = [k EXCEPT !.pc = "done"]]
     /\ UNCHANGED <<token, remote, httpCache, shaCache, local, events, world, clip, book, task>>

\* ------------------------------------------------- the IndexedDB adapter
LEv(kind, f) == Ev(kind, "idb", f, FALSE, NoSha, 200, 0, 0)

\* db.put(store, plain copy of the record)
LPut(c) ==
  LET k == calls[c]
  IN /\ k.pc = "l_put"
     /\ local' = [local EXCEPT ![k.key][k.rec.id] = k.rec.val]
     /\ calls' = [calls EXCEPT ![c] =
          [Logged(k, LEv("LPUT", k.key)) EXCEPT
             !.pc = "done",
             !.res = IF k.helper = "createDefaultMetadata" THEN k.rec ELSE @]]
     /\ UNCHANGED <<token, remote, httpCache, shaCache, events, world, clip, book, task>>

\* db.delete(store, id); deleteRecipe then deletes the metadata row
LDel(c) ==
  LET k == calls[c]
  IN /\ k.pc = "l_del"
     /\ local' = [local EXCEPT ![k.key][k.id] = Absent]
     /\ calls' = [calls EXCEPT ![c] =
          IF k.helper = "deleteRecipe" /\ k.key = "recipes"
          THEN [Logged(k, LEv("LDEL", k.key)) EXCEPT !.key = "metadata"]
          ELSE [Logged(k, LEv("LDEL", k.key)) EXCEPT !.pc = "done"]]
     /\ UNCHANGED <<token, remote, httpCache, shaCache, events, world, clip, book, task>>

\* db.getAll(store) / index.getAll(weekStart)
LGet(c) ==
  LET k == calls[c]
  IN /\ k.pc = "l_get"
     /\ calls' = [calls EXCEPT ![c] =
          [Logged(k, LEv("LGET", k.key)) EXCEPT
             !.pc = "done", !.gotR = LocalArr(k.key),
             !.res = IF k.op \in ByIdOps THEN Find(LocalArr(k.key), k.id) ELSE @]]
     /\ UNCHANGED <<token, remote, httpCache, shaCache, local, events, world, clip, book, task>>

\* one of the two reads of a combined read on the local store
LJoinRead(c, f) ==
  LET k == calls[c]
  IN /\ k.pc = "l_join"
     /\ f \in k.pend
     /\ LET k1 == Got([Logged(k, LEv("LGET", f)) EXCEPT !.pend = @ \ {f}],
                      f, LocalArr(f))
            cs == [calls EXCEPT ![c] = k1]
        IN calls' = IF k1.pend = {} THEN AfterJoin(cs, c) ELSE cs
     /\ UNCHANGED <<token, remote, httpCache, shaCache, local, events, world, clip, book, task>>

\* ---------------------------------------------------------- environment
\* the next version another device commits: it adds its record, changes it
\* or removes it again
OtherId == CHOOSE i \in Ids : \A j \in Ids : j <= i
OtherArr(f, arr) ==
  LET r == Find(arr, OtherId)
  IN IF r = NoRec THEN Append(arr, Rec(OtherId, ValA(f)))
     ELSE IF r.val = ValA(f) THEN Upsert(arr, Rec(OtherId, ValB(f)))
     ELSE FilterOut(arr, OtherId)

\* another device commits a version of a document a call is about to read
\* or write (a commit during a backoff wait is the same as one after it)
OtherWrite(f) ==
  /\ Budget
  /\ \E c \in Slots : /\ calls[c].pc \in {"read", "sd_get", "sd_put", "sd_reget"}
                      /\ calls[c].key = f
  /\ remote' = [remote EXCEPT ![f] =
       [exists |-> TRUE, text |-> Stringify(OtherArr(f, RemoteArr(f)))]]
  /\ events' = EnvEvent
  /\ UNCHANGED <<token, httpCache, shaCache, local, calls, world, clip, book, task>>

\* saveGitHubConfig(config): localStorage.setItem(CONFIG_KEY, config.token)
saveGitHubConfig(t) ==
  /\ events.cfg < MaxCfg
  /\ token' = t
  /\ events' = [events EXCEPT !.cfg = @ + 1]
  /\ UNCHANGED <<remote, httpCache, shaCache, local, calls, world, clip, book, task>>

\* clearGitHubConfig(): localStorage.removeItem(CONFIG_KEY)
clearGitHubConfig ==
  /\ events.cfg < MaxCfg
  /\ token' = "null"
  /\ events' = [events EXCEPT !.cfg = @ + 1]
  /\ UNCHANGED <<remote, httpCache, shaCache, local, calls, world, clip, book, task>>

\* the caller has received the outcome; the slot is free again
Return(c) ==
  /\ calls[c].pc \in {"done", "failed"}
  /\ calls[c].parent # 0 => calls[calls[c].parent].pc # "kids"
  /\ calls' = [calls EXCEPT ![c] = Idle]
  /\ UNCHANGED <<token, remote, httpCache, shaCache, local, events, world, clip, book, task>>

\* ------------------------------------------------ export, import, migration
\* github.exportAllData: one of the four reads started together answers; the
\* last answer settles the Promise.all and the bundle is handed to the user
XJoinRead(c, f) ==
  LET k == calls[c]
  IN /\ k.pc = "x_join"
     /\ f \in k.pend
     /\ \E r \in GetResponses(f, FALSE) :
          /\ NetGet(f, FALSE, r)
          /\ shaCache' = ShaCacheAfter(f, r)
          /\ LET k1 == Logged(k, Ev("GET", "get", f, FALSE, r.file.sha, r.st, 0, 0))
                 k2 == [k1 EXCEPT !.pend = @ \ {f}]
                 k3 == IF getFileOk(r.st)
                       THEN [k2 EXCEPT !.bundle[f] = ParseOrEmpty(r.file.content)]
                       ELSE [k2 EXCEPT !.err = IF @ = "none" THEN GetError(r.st) ELSE @]
                 ok == k3.pend = {} /\ k3.err = "none"
             IN /\ calls' = [calls EXCEPT ![c] =
                      IF k3.pend # {} THEN k3
                      ELSE IF k3.err # "none" THEN Reject(k3, k3.err)
                      ELSE [k3 EXCEPT !.pc = "done", !.ver = ExportVersion]]
                /\ clip' = IF ok THEN [has |-> TRUE, ver |-> ExportVersion,
                                       data |-> k3.bundle, of |-> k.pre]
                           ELSE clip
     /\ UNCHANGED <<token, remote, local, world, book, task>>

\* the four db.getAll of local.exportAllData, in the order of the bundle
LReadAll(k) ==
  [k EXCEPT !.log = @ \o [j \in 1..Len(ImportOrder) |-> LEv("LGET", ImportOrder[j])]]

\* local.exportAllData
LExport(c) ==
  LET k == calls[c]
  IN /\ k.pc = "l_export"
     /\ calls' = [calls EXCEPT ![c] =
          [LReadAll(k) EXCEPT !.pc = "done", !.bundle = StoreOf("local"),
                              !.ver = ExportVersion]]
     /\ clip' = [has |-> TRUE, ver |-> ExportVersion, data |-> StoreOf("local"),
                 of |-> k.pre]
     /\ UNCHANGED <<token, remote, httpCache, shaCache, local, events, world, book, task>>

\* the store after objectStore.put of every record of the array, in order
RECURSIVE PutAll(_, _)
PutAll(st, arr) ==
  IF arr = <<>> THEN st
  ELSE PutAll([st EXCEPT ![Head(arr).id] = Head(arr).val], Tail(arr))

\* local.importAllData: one readwrite transaction that puts every record
LImport(c) ==
  LET k == calls[c]
  IN /\ k.pc = "l_import"
     /\ local' = [f \in FILES |-> PutAll(local[f], k.bundle[f])]
     /\ calls' = [calls EXCEPT ![c] =
          [Logged(k, LEv("LPUT", "recipes")) EXCEPT !.pc = "done"]]
     /\ UNCHANGED <<token, remote, httpCache, shaCache, events, world, clip, book, task>>

\* clearLocalData -> local.clearAllData: one transaction that clears the stores
LClear(c) ==
  LET k == calls[c]
  IN /\ k.pc = "l_clear"
     /\ local' = [f \in FILES |-> [i \in Ids |-> Absent]]
     /\ calls' = [calls EXCEPT ![c] =
          [Logged(k, LEv("LDEL", "recipes")) EXCEPT !.pc = "done"]]
     /\ UNCHANGED <<token, remote, httpCache, shaCache, events, world, clip, book, task>>

\* variant: a migration without the test for data to migrate
MExportAlways(c) ==
  LET k == calls[c]
  IN /\ k.pc = "m_export"
     /\ calls' = [calls EXCEPT ![c] =
          [LReadAll(k) EXCEPT !.bundle = StoreOf("local"), !.pc = "m_init"]]
     /\ UNCHANGED <<token, remote, httpCache, shaCache, local, events, world, clip, book, task>>

\* variant: a migration that moves the data, emptying the local store once
\* it has been read
MExportMove(c) ==
  LET k == calls[c]
      localData == StoreOf("local")
      hasData == \E f \in FILES : Len(localData[f]) > 0
  IN /\ k.pc = "m_export"
     /\ local' = [f \in FILES |-> [i \in Ids |-> Absent]]
     /\ calls' = [calls EXCEPT ![c] =
          IF hasData THEN [LReadAll(k) EXCEPT !.bundle = localData, !.pc = "m_init"]
          ELSE [LReadAll(k) EXCEPT !.pc = "done"]]
     /\ UNCHANGED <<token, remote, httpCache, shaCache, events, world, clip, book, task>>

\* migrateToGitHub: localData = await local.exportAllData(); hasData
MExport(c) ==
  LET k == calls[c]
      localData == StoreOf("local")
      hasData == \E f \in FILES : Len(localData[f]) > 0
  IN /\ k.pc = "m_export"
     /\ calls' = [calls EXCEPT ![c] =
          IF hasData THEN [LReadAll(k) EXCEPT !.bundle = localData, !.pc = "m_init"]
          ELSE [LReadAll(k) EXCEPT !.pc = "done"]]
     /\ UNCHANGED <<token, remote, httpCache, shaCache, local, events, world, clip, book, task>>

\* initializeDataFolder: const file = await getFile(config, 'data/.gitkeep')
MInitGet(c) ==
  LET k == calls[c]
  IN /\ k.pc = "m_init"
     /\ \E r \in GetResponses(Marker, FALSE) :
          /\ NetGet(Marker, FALSE, r)
          /\ LET k1 == Logged(k, Ev("GET", "init", Marker, FALSE, r.file.sha, r.st, 0, 0))
             IN calls' = [calls EXCEPT ![c] =
                  IF r.st = 200 THEN ImportStart(k1, k.bundle)
                  ELSE IF r.st = 404 THEN [k1 EXCEPT !.pc = "m_put"]
                  ELSE Reject(k1, GetError(r.st))]
     /\ UNCHANGED <<token, remote, shaCache, local, world, clip, book, task>>

\* initializeDataFolder: await saveFile(config, 'data/.gitkeep', '', ...)
MInitPut(c) ==
  LET k == calls[c]
  IN /\ k.pc = "m_put"
     /\ \E st \in PutStatuses(Marker, NoSha) :
          LET e == [Ev("PUT", "init", Marker, FALSE, NoSha, st, 0, 0)
                      EXCEPT !.prev = remote[Marker]]
              k1 == Logged(k, e)
          IN /\ remote' = IF Accepted(st)
                          THEN [remote EXCEPT ![Marker] =
                                  [exists |-> TRUE, text |-> NoText]]
                          ELSE remote
             /\ events' = IF st \in HostStatuses(Marker, NoSha) THEN events ELSE EnvEvent
             /\ calls' = [calls EXCEPT ![c] =
                  IF Accepted(st) THEN ImportStart(k1, k.bundle)
                  ELSE Reject(k1, PutError(st))]
     /\ UNCHANGED <<token, httpCache, shaCache, local, world, clip, book, task>>

\* clearCache(): shaCache.clear()
clearCache ==
  /\ events.cfg < MaxCfg
  /\ \E f \in FILES : shaCache[f].def
  /\ shaCache' = [f \in FILES |-> NoSha]
  /\ events' = [events EXCEPT !.cfg = @ + 1]
  /\ UNCHANGED <<token, remote, httpCache, local, calls, world, clip, book, task>>

\* the user empties the data folder of the repository to restore a backup
\* into it
EmptyRepository ==
  /\ events.cfg < MaxCfg
  /\ clip.has
  /\ \A c \in Slots : calls[c].pc = "idle"
  /\ \E f \in FILES : remote[f].exists
  /\ remote' = [f \in PATHS |-> IF f = Marker THEN remote[f] ELSE NoFileRemote]
  /\ events' = [events EXCEPT !.cfg = @ + 1]
  /\ UNCHANGED <<token, httpCache, shaCache, local, calls, world, clip, book, task>>

\* ------------------------------------------------ the recipes store module
\* the two lanes in which functions of the recipes store run side by side
Lanes == {1, 2}

\* an awaited data-service call of a store function has resolved and the
\* function has more to do
Pending(k) ==
  /\ k.pc = "done"
  /\ \/ k.op = "createRecipe" /\ k.helper = "saveRecipe"
     \/ k.op = "updateMetadata" /\ k.helper \in {"getMetadata", "createDefaultMetadata"}

\* createRecipe, updateMetadata, deleteRecipe, and the reads loadRecipes and
\* the pages make; a function starts with its first data-service call. The
\* id of createRecipe is a fresh uuid; metadata is updated and a recipe is
\* deleted from a page that shows the recipe, which a recipe being created
\* is not yet; bundle keeps the updates of updateMetadata across its awaits
StoreCall(c, op, i, v) ==
  /\ c \in Lanes
  /\ calls[c].pc = "idle"
  /\ op = "getAllRecipesWithMeta" => c = 1 /\ \A s \in Slots : calls[s].pc = "idle"
  /\ c # 1 => calls[1].op # "getAllRecipesWithMeta"
  /\ op = "createRecipe" =>
       /\ \A f \in {"recipes", "metadata"} : Find(StoreOf(Route(token))[f], i) = NoRec
       /\ \A s \in Lanes : calls[s].id # i
  /\ op \in {"updateMetadata", "deleteRecipe"} =>
       /\ Find(StoreOf(Route(token))["recipes"], i) # NoRec
       /\ \A s \in Lanes : ~(calls[s].op = "createRecipe" /\ calls[s].id = i)
  /\ LET first == CASE op = "createRecipe" -> StartRecord("saveRecipe", i, v, token)
                     [] op = "updateMetadata" -> StartRecord("getMetadata", i, v, token)
                     [] OTHER -> StartRecord(op, i, v, token)
     IN calls' = [calls EXCEPT ![c] =
          [first EXCEPT !.op = op, !.pre = StoreOf(Route(token)),
                        !.preL = StoreOf("local"),
                        !.bundle = IF op = "updateMetadata"
                                   THEN [@ EXCEPT !["metadata"] = <<Rec(i, v)>>]
                                   ELSE @]]
  /\ events' = [events EXCEPT !.calls = @ + 1]
  /\ UNCHANGED <<token, remote, httpCache, shaCache, local, world, clip, book, task>>

\* createRecipe: await dataService.saveRecipe(recipe) has resolved;
\* dataService.saveMetadata(metadata) is called
CreateRecipeNext(c) ==
  LET k == calls[c]
      n == StartRecord("saveMetadata", k.id, DefaultMetadata(k.id).val, token)
  IN /\ k.op = "createRecipe" /\ k.helper = "saveRecipe" /\ k.pc = "done"
     /\ calls' = [calls EXCEPT ![c] =
          [n EXCEPT !.op = k.op, !.log = k.log, !.pre = k.pre, !.preL = k.preL]]
     /\ UNCHANGED <<token, remote, httpCache, shaCache, local, events, world, clip, book, task>>

\* updateMetadata: dataService.getMetadata(id) has resolved; without a row
\* dataService.createDefaultMetadata(id) is called, and then
\* dataService.saveMetadata({...existing, ...updates, id})
UpdateMetadataNext(c) ==
  LET k == calls[c]
      found == Find(k.gotR, k.id) # NoRec
      upd == k.bundle["metadata"]
      base == [Idle EXCEPT !.op = k.op, !.backend = Route(token), !.cfgTok = token,
                           !.log = k.log, !.pre = k.pre, !.preL = k.preL,
                           !.bundle = k.bundle]
      save == StartRecord("saveMetadata", k.id, upd[1].val, token)
  IN /\ k.op = "updateMetadata" /\ k.pc = "done"
     /\ k.helper \in {"getMetadata", "createDefaultMetadata"}
     /\ calls' = [calls EXCEPT ![c] =
          IF k.helper = "getMetadata" /\ ~found
          THEN StartDefault(base, k.id)
          ELSE [save EXCEPT !.op = k.op, !.log = k.log, !.pre = k.pre,
                            !.preL = k.preL]]
     /\ UNCHANGED <<token, remote, httpCache, shaCache, local, events, world, clip, book, task>>

\* a function of the store has settled and its lane is free again
StoreReturn(c) ==
  /\ ~Pending(calls[c])
  /\ Return(c)

\* ------------------------------------------- recipes and their timestamps
\* a recipe as the store hands it to saveRecipe: unit is the unit of its
\* ingredient, "name" when the unit repeats the name of the ingredient
NoRecipe == [id |-> 0, title |-> "-", unit |-> "-", createdAt |-> 0, updatedAt |-> 0]
NoBook == [clock |-> 0, recipes |-> [i \in Ids |-> NoRecipe]]

\* saveRecipe: an upsert by recipe.id
SavedRecipe(rs, r) == [rs EXCEPT ![r.id] = r]

\* the updates updateRecipe is called with: a title, and an id (0: none)
Updates == [id : Ids \cup {0}, title : {"a", "b"}]

\* updateRecipe: { ...existing, ...updates, id, updatedAt: now }
Updated(existing, u, i, now) ==
  [existing EXCEPT !.title = u.title, !.id = i, !.updatedAt = now]

\* createRecipe(recipeData): id = uuidv4(), createdAt = updatedAt = now; two
\* readings of the clock that awaited work separates differ
createRecipe(i, unit) ==
  LET now == book.clock + 1
  IN /\ book.clock < MaxClock
     /\ book.recipes[i] = NoRecipe
     /\ book' = [clock |-> now,
                 recipes |-> SavedRecipe(book.recipes,
                   [id |-> i, title |-> "a", unit |-> unit,
                    createdAt |-> now, updatedAt |-> now])]
     /\ UNCHANGED <<token, remote, httpCache, shaCache, local, calls, events,
                    world, clip, task>>

\* updateRecipe(id, updates): getRecipe(id), throw when missing, saveRecipe
updateRecipe(i, u) ==
  LET now == book.clock + 1
      existing == book.recipes[i]
  IN /\ book.clock < MaxClock
     /\ existing # NoRecipe
     /\ book' = [clock |-> now,
                 recipes |-> SavedRecipe(book.recipes, Updated(existing, u, i, now))]
     /\ UNCHANGED <<token, remote, httpCache, shaCache, local, calls, events,
                    world, clip, task>>

\* repairIngredients of the settings page: every recipe with an ingredient
\* whose unit equals its name gets the unit cleared and is saved as it is
Repaired(r) == IF r # NoRecipe /\ r.unit = "name" THEN [r EXCEPT !.unit = ""] ELSE r
repairIngredients ==
  /\ \E i \in Ids : Repaired(book.recipes[i]) # book.recipes[i]
  /\ book' = [book EXCEPT !.recipes = [i \in Ids |-> Repaired(book.recipes[i])]]
  /\ UNCHANGED <<token, remote, httpCache, shaCache, local, calls, events,
                 world, clip, task>>

\* ------------------------------------------------------------ behaviours
SeedArr(f) ==
  IF f = "recipes" THEN <<Rec(1, "a"), Rec(2, "a")>> ELSE <<Rec(1, ValA(f))>>
SeedRemote ==
  [f \in PATHS |-> IF f = Marker THEN [exists |-> TRUE, text |-> NoText]
                   ELSE [exists |-> TRUE, text |-> Stringify(SeedArr(f))]]
EmptyRemote == [f \in PATHS |-> NoFileRemote]
NoClip == [has |-> FALSE, ver |-> 0, data |-> [f \in FILES |-> <<>>],
           of |-> [f \in FILES |-> <<>>]]
SeedLocal ==
  [f \in FILES |-> [i \in Ids |->
     IF i \in IdsOf(SeedArr(f)) THEN Find(SeedArr(f), i).val ELSE Absent]]
EmptyLocal == [f \in FILES |-> [i \in Ids |-> Absent]]

NoTask == [fn |-> "none"]
InitStorage ==
  /\ httpCache = [f \in PATHS |-> NullFile]
  /\ clip = NoClip
  /\ book = NoBook
  /\ shaCache = [f \in FILES |-> NoSha]
  /\ calls = [c \in Slots |-> Idle]
  /\ events = [calls |-> 0, env |-> 0, cfg |-> 0]
InitClient ==
  /\ InitStorage
  /\ task = NoTask
\* a client on the local backend with nothing stored and no call in flight
InitPage ==
  /\ token = "null"
  /\ world = "alone"
  /\ remote = EmptyRemote
  /\ local = EmptyLocal
  /\ InitStorage
\* what a computation of the page leaves alone
PageFrame ==
  UNCHANGED <<token, remote, httpCache, shaCache, local, calls, events, world,
              clip, book>>

\* the remote adapter of a configured client that shares the repository
\* with other devices; the client works on the records the other device
\* does not own
Init ==
  /\ token = "t"
  /\ world = "shared"
  /\ remote \in {EmptyRemote, SeedRemote}
  /\ local = EmptyLocal
  /\ InitClient

Next ==
  \/ \E op \in WriteOps : \E a \in CallArgs(op) :
       /\ events.calls < MaxCalls
       /\ a[1] # OtherId
       /\ Call(1, op, a[1], a[2])
  \/ \E c \in Slots : Read(c)
  \/ \E c \in Slots : SdGet(c)
  \/ \E c \in Slots : SdPut(c)
  \/ \E c \in Slots : SdReget(c)
  \/ \E c \in Slots : SdWait(c)
  \/ \E c \in Slots : HelperWait(c)
  \/ \E f \in FILES : OtherWrite(f)
  \/ \E c \in Slots : Return(c)

Spec == Init /\ [][Next]_vars

\* a client that is alone on a healthy host and switches between the two
\* backends
InitSolo ==
  /\ token \in {"null", "t"}
  /\ world = "alone"
  /\ \E seeded \in BOOLEAN :
       /\ remote = IF seeded THEN SeedRemote ELSE EmptyRemote
       /\ local = IF seeded THEN SeedLocal ELSE EmptyLocal
  /\ InitClient

NextSolo ==
  \/ \E op \in WriteOps \cup ReadOps \cup {"getRecipeWithMeta"} : \E a \in CallArgs(op) :
       events.calls < MaxSoloCalls /\ Call(1, op, a[1], a[2])
  \/ \E c \in Slots : Read(c)
  \/ \E c \in Slots : SdGet(c)
  \/ \E c \in Slots : SdPut(c)
  \/ \E c \in Slots : SdReget(c)
  \/ \E c \in Slots : Get(c)
  \/ \E c \in Slots, f \in FILES : JoinRead(c, f)
  \/ \E c \in Slots : LPut(c)
  \/ \E c \in Slots : LDel(c)
  \/ \E c \in Slots : LGet(c)
  \/ \E c \in Slots, f \in FILES : LJoinRead(c, f)
  \/ \E t \in {"", "t"} : saveGitHubConfig(t)
  \/ clearGitHubConfig
  \/ \E c \in Slots : Return(c)

SpecSolo == InitSolo /\ [][NextSolo]_vars

\* getAllRecipesWithMeta and the default-metadata saves it starts together
InitAll ==
  /\ token \in {"null", "t"}
  /\ world = "alone"
  /\ remote = [SeedRemote EXCEPT !["metadata"] = NoFileRemote]
  /\ local = [SeedLocal EXCEPT !["metadata"] = [i \in Ids |-> Absent]]
  /\ InitClient

NextAll ==
  \/ events.calls < MaxCalls /\ Call(1, "getAllRecipesWithMeta", 0, "-")
  \/ \E c \in Slots, f \in FILES : JoinRead(c, f)
  \/ \E c \in Slots, f \in FILES : LJoinRead(c, f)
  \/ \E c \in Slots : Read(c)
  \/ \E c \in Slots : SdGet(c)
  \/ \E c \in Slots : SdPut(c)
  \/ \E c \in Slots : SdReget(c)
  \/ \E c \in Slots : HelperWait(c)
  \/ \E c \in Slots : LPut(c)
  \/ \E c \in Slots : KidsSettle(c)
  \/ \E c \in Slots : Return(c)

SpecAll == InitAll /\ [][NextAll]_vars

\* a backup file of another installation
BackupBundle ==
  [f \in FILES |->
     CASE f = "recipes" -> <<Rec(1, "b")>>
       [] f = "metadata" -> <<Rec(1, "validated")>>
       [] f = "planning" -> <<>>
       [] OTHER -> <<Rec(2, "b")>>]
\* the bundles the user can hand to importAllData
Bundles == {BackupBundle} \cup (IF clip.has THEN {clip.data} ELSE {})

\* export and import on either backend, by a client that is alone
InitPort ==
  /\ token \in {"null", "t"}
  /\ world = "alone"
  /\ \E seeded \in BOOLEAN :
       /\ remote = IF seeded THEN SeedRemote ELSE EmptyRemote
       /\ local = IF seeded THEN SeedLocal ELSE EmptyLocal
  /\ InitClient

NextPort ==
  \/ events.calls < MaxPortCalls /\ Call(1, "exportAllData", 0, "-")
  \/ \E b \in Bundles :
       events.calls < MaxPortCalls /\ Call(1, "importAllData", 0, b)
  \/ events.calls < MaxPortCalls /\ Call(1, "clearLocalData", 0, "-")
  \/ \E c \in Slots, f \in FILES : XJoinRead(c, f)
  \/ \E c \in Slots : LExport(c)
  \/ \E c \in Slots : LImport(c)
  \/ \E c \in Slots : LClear(c)
  \/ \E c \in Slots : SdGet(c)
  \/ \E c \in Slots : SdPut(c)
  \/ \E c \in Slots : SdReget(c)
  \/ EmptyRepository
  \/ \E c \in Slots : Return(c)

SpecPort == InitPort /\ [][NextPort]_vars

\* a repository in which only the recipes have been saved so far
PartRemote ==
  [f \in PATHS |-> IF f \in {Marker, "recipes"} THEN SeedRemote[f] ELSE NoFileRemote]

\* reads and saves of the remote adapter and its token cache, with other
\* devices writing and requests failing
InitCache ==
  /\ token = "t"
  /\ world = "shared"
  /\ remote \in {EmptyRemote, PartRemote, SeedRemote}
  /\ local = EmptyLocal
  /\ InitClient

NextCache ==
  \/ \E op \in ReadOps :
       events.calls < MaxSoloCalls /\ Call(1, op, 0, "-")
  \/ \E op \in ByIdOps : \E i \in Ids :
       events.calls < MaxSoloCalls /\ i # OtherId /\ Call(1, op, i, "-")
  \/ \E a \in CallArgs("saveRecipe") :
       events.calls < MaxSoloCalls /\ a[1] # OtherId
         /\ Call(1, "saveRecipe", a[1], a[2])
  \/ \E c \in Slots : Get(c)
  \/ \E c \in Slots : Read(c)
  \/ \E c \in Slots : SdGet(c)
  \/ \E c \in Slots : SdPut(c)
  \/ \E c \in Slots : SdReget(c)
  \/ \E c \in Slots : SdWait(c)
  \/ \E f \in FILES : OtherWrite(f)
  \/ clearCache
  \/ \E c \in Slots : Return(c)

SpecCache == InitCache /\ [][NextCache]_vars

\* the one-way migration of the local data to the repository
\* calls started in one behaviour: fewer when requests fail and other
\* devices write
PortBudget == IF world = "shared" THEN MaxCalls ELSE MaxPortCalls
MigLocal == [f \in FILES |-> PutAll([i \in Ids |-> Absent], BackupBundle[f])]
InitMig ==
  /\ token \in {"null", "t"}
  /\ world \in {"alone", "shared"}
  /\ remote \in {EmptyRemote, SeedRemote}
  /\ local \in {EmptyLocal, MigLocal}
  /\ InitClient

NextMig ==
  \/ events.calls < PortBudget /\ Call(1, "migrateToGitHub", 0, "-")
  \/ events.calls < PortBudget /\ Call(1, "clearLocalData", 0, "-")
  \/ \E c \in Slots : MExport(c)
  \/ \E c \in Slots : MInitGet(c)
  \/ \E c \in Slots : MInitPut(c)
  \/ \E c \in Slots : SdGet(c)
  \/ \E c \in Slots : SdPut(c)
  \/ \E c \in Slots : SdReget(c)
  \/ \E c \in Slots : SdWait(c)
  \/ \E c \in Slots : LClear(c)
  \/ \E f \in FILES : OtherWrite(f)
  \/ \E c \in Slots : Return(c)

SpecMig == InitMig /\ [][NextMig]_vars

\* a store that holds one recipe and its metadata row, or a second recipe
\* as well that has no metadata row yet
StoreArr(two, f) ==
  IF f = "recipes" THEN (IF two THEN <<Rec(1, "a"), Rec(2, "a")>> ELSE <<Rec(1, "a")>>)
  ELSE IF f = "metadata" THEN <<DefaultMetadata(1)>> ELSE <<>>

\* the functions of the recipes store running in two lanes on either
\* backend, the client being alone
InitStore ==
  /\ token \in {"null", "t"}
  /\ world = "alone"
  /\ \E two \in BOOLEAN :
       /\ remote = [f \in PATHS |->
                     IF f = Marker THEN [exists |-> TRUE, text |-> NoText]
                     ELSE [exists |-> TRUE, text |-> Stringify(StoreArr(two, f))]]
       /\ local = [f \in FILES |-> PutAll([i \in Ids |-> Absent], StoreArr(two, f))]
  /\ InitClient

NextStore ==
  \/ \E c \in Lanes : \E i \in Ids :
       events.calls < MaxSoloCalls /\ StoreCall(c, "createRecipe", i, "a")
  \/ \E c \in Lanes : \E i \in Ids :
       events.calls < MaxSoloCalls /\ StoreCall(c, "updateMetadata", i, "validated")
  \/ \E c \in Lanes : \E i \in Ids :
       events.calls < MaxSoloCalls /\ StoreCall(c, "deleteRecipe", i, "-")
  \/ \E c \in Lanes : \E i \in Ids :
       events.calls < MaxSoloCalls /\ StoreCall(c, "getRecipeWithMeta", i, "-")
  \/ events.calls < MaxSoloCalls /\ StoreCall(1, "getAllRecipesWithMeta", 0, "-")
  \/ \E c \in Slots : CreateRecipeNext(c)
  \/ \E c \in Slots : UpdateMetadataNext(c)
  \/ \E c \in Slots : Get(c)
  \/ \E c \in Slots : Read(c)
  \/ \E c \in Slots : SdGet(c)
  \/ \E c \in Slots : SdPut(c)
  \/ \E c \in Slots : SdReget(c)
  \/ \E c \in Slots : SdWait(c)
  \/ \E c \in Slots : HelperWait(c)
  \/ \E c \in Slots, f \in FILES : JoinRead(c, f)
  \/ \E c \in Slots : KidsSettle(c)
  \/ \E c \in Slots : LPut(c)
  \/ \E c \in Slots : LDel(c)
  \/ \E c \in Slots : LGet(c)
  \/ \E c \in Slots, f \in FILES : LJoinRead(c, f)
  \/ \E c \in Slots : StoreReturn(c)

SpecStore == InitStore /\ [][NextStore]_vars

\* recipes created, edited and repaired on the local backend
InitEdit ==
  /\ token = "null"
  /\ world = "alone"
  /\ remote = EmptyRemote
  /\ local = EmptyLocal
  /\ InitClient

NextEdit ==
  \/ \E i \in Ids, unit \in {"g", "name"} : createRecipe(i, unit)
  \/ \E i \in Ids, u \in Updates : updateRecipe(i, u)
  \/ repairIngredients

SpecEdit == InitEdit /\ [][NextEdit]_vars

\* ------------------------------------------------------------------ claims
LogOf(c) == calls[c].log
Puts(c) == {j \in 1..Len(LogOf(c)) : LogOf(c)[j].kind = "PUT"}
AcceptedPuts(c) == {j \in Puts(c) : Accepted(LogOf(c)[j].st)}
ArrOfRemote(f) == IF f.exists THEN ParseOrEmpty(f.text) ELSE <<>>

\* every record of prev whose id is not i is a record of arr
KeepsOthers(prev, arr, i) ==
  \A j \in 1..Len(prev) :
    prev[j].id # i => \E m \in 1..Len(arr) : arr[m] = prev[j]

\* C1: every write the host accepts carries an array derived from the
\* content of the very version whose token it supplies, so that no record
\* committed by another writer is removed or reverted by an accepted write
C1_BuildsOnTargetedVersion ==
  \A c \in Slots : \A j \in AcceptedPuts(c) :
    LET e == LogOf(c)[j]
    IN /\ e.base = e.sha
       /\ KeepsOthers(ArrOfRemote(e.prev), e.data, calls[c].id)

\* the PUT attempts of the saveData invocation on file f in helper attempt o
PutsOf(c, f, o) == {j \in Puts(c) : LogOf(c)[j].key = f /\ LogOf(c)[j].out = o}
Busy == {c \in Slots : Len(LogOf(c)) > 0}

\* C2: saveData issues at most maxRetries PUTs, and each PUT directly
\* follows, in the same attempt, a successful cache-bypassing read of the
\* same file whose token is the expected prior version the PUT sends
C2_PutFollowsFreshRead ==
  \A c \in Busy :
    /\ \A i \in Puts(c) :
         Cardinality(PutsOf(c, LogOf(c)[i].key, LogOf(c)[i].out)) <= calls[c].maxR
    /\ \A j \in Puts(c) :
         /\ j > 1
         /\ LET e == LogOf(c)[j]
                g == LogOf(c)[j - 1]
            IN /\ g.kind = "GET" /\ g.site = "saveData" /\ g.nc
               /\ g.key = e.key /\ g.att = e.att /\ g.out = e.out
               /\ g.st \in {200, 404}
               /\ g.sha = e.sha

\* a third PUT of one saveData, after two conflicts, is accepted
C2_Witness ==
  \E c \in Slots : \E j \in AcceptedPuts(c) :
    LogOf(c)[j].att = DefaultMaxRetries - 1 /\ Cardinality(Puts(c)) = DefaultMaxRetries

\* the attempts a helper makes in all: its own times those of saveData
TotalAttempts(h) == HelperRetries(h) * SaveDataRetries(h)
ConflictsOn(c, f) == {j \in Puts(c) : LogOf(c)[j].key = f /\ LogOf(c)[j].st = 409}
Exhausted(c) ==
  /\ calls[c].helper \in WriteOps \cup {"createDefaultMetadata"}
  /\ Cardinality(ConflictsOn(c, calls[c].key)) = TotalAttempts(calls[c].helper)

\* C3: when every PUT attempt on a file was rejected with 409, the call has
\* rejected with the version-conflict error and the document is the one the
\* other writers left: no PUT of the call on it was accepted
C3_ExhaustedConflictRejects ==
  \A c \in Busy :
    Exhausted(c) =>
      LET k == calls[c]
          last == LogOf(c)[Len(LogOf(c))]
      IN /\ k.pc = "failed"
         /\ k.err = "Conflit de version"
         /\ \A j \in AcceptedPuts(c) : LogOf(c)[j].key # k.key
         /\ last.kind = "PUT" /\ remote[k.key] = last.prev

C3_Witness ==
  \E c \in Slots :
    /\ Exhausted(c)
    /\ calls[c].helper = "saveMetadata"
    /\ calls[c].pc = "failed"

\* a response that is neither a success nor a retryable conflict
Fatal(e) ==
  \/ e.kind = "PUT" /\ ~Accepted(e.st) /\ e.st # 409
  \/ e.kind = "GET" /\ e.st \notin {200, 404}
ErrorOf(e) == IF e.kind = "PUT" THEN PutError(e.st) ELSE GetError(e.st)

\* C4: a PUT rejected with a status other than 409, or a read failing with a
\* status other than 404, is the last request of the call, which has rejected
\* with that error; a backoff wait only ever follows a PUT rejected with 409
C4_OnlyConflictIsRetried ==
  \A c \in Busy : \A j \in 1..Len(LogOf(c)) :
    LET e == LogOf(c)[j]
    IN /\ Fatal(e) => /\ j = Len(LogOf(c))
                      /\ calls[c].pc = "failed"
                      /\ calls[c].err = ErrorOf(e)
       /\ e.kind = "WAIT" => /\ j > 1
                             /\ LogOf(c)[j - 1].kind = "PUT"
                             /\ LogOf(c)[j - 1].st = 409

\* a PUT is refused with 403 after an earlier conflict was retried
C4_Witness ==
  \E c \in Slots :
    /\ calls[c].pc = "failed"
    /\ calls[c].err = "Permission refusee"
    /\ \E j \in 1..Len(LogOf(c)) : LogOf(c)[j].kind = "WAIT"

\* a token is stored: the key exists and holds a non-empty string
TokenStored(t) == t \notin {"null", ""}
BackendFor(t) == IF TokenStored(t) THEN "github" ELSE "local"
RemoteKinds == {"GET", "PUT", "WAIT"}
LocalKinds == {"LGET", "LPUT", "LDEL"}
KindsOf(b) == IF b = "github" THEN RemoteKinds ELSE LocalKinds
C5_Step ==
  /\ \A c \in Slots :
       /\ (calls[c].pc = "idle" /\ calls'[c].pc # "idle" /\ calls'[c].parent = 0)
            => calls'[c].backend = BackendFor(token)
       /\ (calls[c].pc # "idle" /\ calls'[c].pc # "idle")
            => calls'[c].backend = calls[c].backend
       /\ Len(calls'[c].log) > Len(calls[c].log)
            => calls'[c].log[Len(calls'[c].log)].kind \in KindsOf(calls'[c].backend)
  /\ remote' # remote
       => \E c \in Slots : calls[c].backend = "github" /\ calls'[c] # calls[c]
  /\ local' # local
       => \E c \in Slots : calls[c].backend = "local" /\ calls'[c] # calls[c]
  /\ (getStorageMode(token') = "github") <=> TokenStored(token')

\* C5: an operation is handed to the remote adapter exactly when a token is
\* stored at the moment of the call, otherwise to the local adapter; the
\* backend of a call never changes while it runs, it issues requests to that
\* backend only and only a call of a backend changes that backend's data;
\* getStorageMode is 'github' exactly when a token is stored
C5_RoutedByStoredToken == [][C5_Step]_vars

\* a call handed to the local adapter has worked on IndexedDB and is still
\* there although a token has been stored since
C5_Witness ==
  \E c \in Slots :
    /\ calls[c].backend = "local"
    /\ calls[c].pc \in {"l_del", "l_join", "done"}
    /\ Len(LogOf(c)) > 0
    /\ TokenStored(token)

\* the collections of the backend a call works on, as they are now
NowOf(c) == StoreOf(calls[c].backend)
Completed(c, ops) == calls[c].pc = "done" /\ calls[c].op \in ops /\ calls[c].parent = 0
Wrote(c) == \E j \in 1..Len(LogOf(c)) :
  \/ LogOf(c)[j].kind \in {"LPUT", "LDEL"}
  \/ LogOf(c)[j].kind = "PUT" /\ Accepted(LogOf(c)[j].st)

\* C6: when deleteRecipe(id) has completed, on either backend, the store
\* holds no recipe and no metadata row with that id, the other recipes and
\* metadata rows are the ones the store held at the call, and the planning
\* entries are untouched
C6_DeleteRecipeCascades ==
  \A c \in Slots :
    Completed(c, {"deleteRecipe"}) =>
      LET k == calls[c]
      IN /\ Find(NowOf(c)["recipes"], k.id) = NoRec
         /\ Find(NowOf(c)["metadata"], k.id) = NoRec
         /\ NowOf(c)["recipes"] = FilterOut(k.pre["recipes"], k.id)
         /\ NowOf(c)["metadata"] = FilterOut(k.pre["metadata"], k.id)
         /\ NowOf(c)["planning"] = k.pre["planning"]

\* C7: when getRecipeWithMeta(id) has completed, on either backend: a recipe
\* without a metadata row gets the default row, returned and persisted; a
\* stored row is returned as stored and nothing is written; for a missing
\* recipe the result is undefined and nothing is written
C7_LazyDefaultMetadata ==
  \A c \in Slots :
    Completed(c, {"getRecipeWithMeta"}) =>
      LET k == calls[c]
          recipe == Find(k.pre["recipes"], k.id)
          row == Find(k.pre["metadata"], k.id)
      IN IF recipe = NoRec
         THEN k.res = NoRec /\ ~Wrote(c) /\ NowOf(c) = k.pre
         ELSE IF row # NoRec
              THEN k.res = row /\ ~Wrote(c) /\ NowOf(c) = k.pre
              ELSE /\ k.res = [id |-> k.id, val |-> "to-test"]
                   /\ Find(NowOf(c)["metadata"], k.id) = k.res

\* C9: the read by which a remote single-record save or delete obtains the
\* array it modifies bypasses the cache (noCache = true)
C9_HelperReadBypassesCache ==
  \A c \in Slots : \A j \in 1..Len(LogOf(c)) :
    LET e == LogOf(c)[j]
    IN (calls[c].op \in WriteOps /\ e.kind = "GET" /\ e.site = "read") => e.nc

\* cur is prev with the record r replaced where it was, or added at the end
ReplacedOrAppended(prev, cur, r) ==
  IF r.id \in IdsOf(prev)
  THEN /\ Len(cur) = Len(prev)
       /\ \A j \in 1..Len(prev) :
            cur[j] = IF prev[j].id = r.id THEN r ELSE prev[j]
  ELSE cur = Append(prev, r)
\* the datasets a write of this operation may change
Targets(op) == IF op = "deleteRecipe" THEN {"recipes", "metadata"} ELSE {OpKey(op)}

\* C10: with no other writer, a completed single-record save has replaced
\* the record with the target id in place or added it at the end, a
\* completed delete has removed the records with the target id, every other
\* record keeps its value and order, the other datasets are unchanged
\* (deleteRecipe also removes the metadata row of the id) and no dataset
\* holds an id twice
C10_OnlyTargetChanges ==
  \A c \in Slots :
    Completed(c, WriteOps) =>
      LET k == calls[c]
      IN /\ \A f \in Targets(k.op) :
              IF k.op \in SaveOps
              THEN /\ Find(NowOf(c)[f], k.id) = k.rec
                   /\ FilterOut(NowOf(c)[f], k.id) = FilterOut(k.pre[f], k.id)
                   /\ k.backend = "github"
                        => ReplacedOrAppended(k.pre[f], NowOf(c)[f], k.rec)
              ELSE NowOf(c)[f] = FilterOut(k.pre[f], k.id)
         /\ \A f \in FILES \ Targets(k.op) : NowOf(c)[f] = k.pre[f]
         /\ \A f \in FILES : NoDup(NowOf(c)[f])

\* the recipes without a metadata row when the call was made
MissingAtCall(c) ==
  {i \in IdsOf(calls[c].pre["recipes"]) : i \notin IdsOf(calls[c].pre["metadata"])}
ManyMissing(c) ==
  /\ calls[c].op = "getAllRecipesWithMeta"
  /\ calls[c].backend = "github"
  /\ Cardinality(MissingAtCall(c)) >= 2

\* C8: a remote getAllRecipesWithMeta that found two or more recipes without
\* a metadata row does not fail because of its own default-metadata saves,
\* and when it has returned the metadata dataset holds a row for each of
\* those recipes and every row it held at the call
C8_DefaultSavesKeepEachOther ==
  \A c \in Slots :
    ManyMissing(c) =>
      /\ calls[c].pc # "failed"
      /\ calls[c].pc = "done" =>
           /\ \A i \in MissingAtCall(c) : Find(RemoteArr("metadata"), i) # NoRec
           /\ \A j \in 1..Len(calls[c].pre["metadata"]) :
                Find(RemoteArr("metadata"), calls[c].pre["metadata"][j].id)
                  = calls[c].pre["metadata"][j]

\* ------------------------------------------------------------------- C11
\* the GET a step of call c has just been answered with, if any
LastGet(c) ==
  IF Len(calls'[c].log) = Len(calls[c].log) + 1
       /\ calls'[c].log[Len(calls'[c].log)].kind = "GET"
  THEN calls'[c].log[Len(calls'[c].log)] ELSE Ev("none", "-", "none", FALSE, NoSha, 0, 0, 0)
\* the PUT a step of call c has just made, if any
LastPut(c) ==
  IF Len(calls'[c].log) = Len(calls[c].log) + 1
       /\ calls'[c].log[Len(calls'[c].log)].kind = "PUT"
  THEN calls'[c].log[Len(calls'[c].log)] ELSE Ev("none", "-", "none", FALSE, NoSha, 0, 0, 0)

C11_Step ==
  \A c \in Slots :
    LET g == LastGet(c)
        p == LastPut(c)
        k == calls[c]
        k2 == calls'[c]
    IN /\ (g.kind = "GET" /\ g.st = 404) =>
            /\ shaCache' = shaCache
            /\ k2.err = "none" /\ k2.pc # "failed"
            /\ g.site = "get" =>
                 /\ k2.pc = "done" /\ k2.gotR = <<>>
                 /\ k.op \in ByIdOps => k2.res = NoRec
            /\ g.site = "read" => k2.base = NullFile /\ k2.pc = "sd_get"
            /\ g.site = "saveData" => k2.sha = NoSha /\ k2.pc = "sd_put"
       /\ (p.kind = "PUT" /\ k.sha = NoSha) =>
            /\ ~p.sha.def
            /\ p.st = 201 =>
                 /\ ~remote[p.key].exists
                 /\ remote'[p.key] = [exists |-> TRUE, text |-> Stringify(k.data)]

\* C11: a read answered with 404 gives the empty collection (no record for a
\* read by id), is no error and leaves shaCache as it was; the save to a
\* dataset whose file saveData found missing sends a PUT without an expected
\* token, and that PUT, when accepted, creates the file
C11_MissingFileReadsEmpty == [][C11_Step]_vars

\* a read by id was answered with 404 and returned no record while shaCache
\* held the token of another dataset
C11_Witness ==
  /\ calls[1].pc = "done" /\ calls[1].op \in ByIdOps
  /\ calls[1].res = NoRec /\ calls[1].err = "none"
  /\ \E i \in 1..Len(calls[1].log) :
       calls[1].log[i].kind = "GET" /\ calls[1].log[i].st = 404
  /\ \E f \in FILES : shaCache[f].def /\ f # calls[1].key

\* ------------------------------------------------------------------- C12
C12_Step ==
  /\ \A c \in Slots :
       calls'[c].op = "migrateToGitHub" =>
         [f \in FILES |-> SeqOfStore(local'[f], Ids)] = calls'[c].preL
  /\ local' # local =>
       \E c \in Slots : calls[c].op = "clearLocalData" /\ calls[c].pc = "l_clear"

\* C12: from its call to its result, whatever the result, migrateToGitHub
\* leaves the four local collections as they were at the call; in these
\* behaviours the local store changes only in the step of a clearLocalData call
C12_MigrationKeepsLocal == [][C12_Step]_vars

\* the outcomes of a migration
MigSucceeded(c) ==
  /\ calls[c].op = "migrateToGitHub" /\ calls[c].pc = "done"
  /\ calls[c].err = "none"
MigFailed(c) ==
  /\ calls[c].op = "migrateToGitHub" /\ calls[c].pc = "done"
  /\ calls[c].err # "none"

\* a migration of a non-empty local store has failed after its first
\* accepted write, and the local store still holds the data
C12_Witness ==
  /\ MigFailed(1)
  /\ AcceptedPuts(1) # {}
  /\ StoreOf("local") = calls[1].preL
  /\ \E f \in FILES : Len(LocalArr(f)) > 0

\* ------------------------------------------------------------------- C13
\* the requests call c has sent to the repository, and its backoff waits
RemoteLog(c) == SelectSeq(LogOf(c), LAMBDA e : e.site # "idb")
HadData(c) == \E f \in FILES : Len(calls[c].preL[f]) > 0
Rank(f) ==
  CASE f = "recipes" -> 1 [] f = "metadata" -> 2 [] f = "planning" -> 3
    [] f = "shoppingLists" -> 4 [] OTHER -> 0
FailedRequest(e) ==
  \/ e.kind = "PUT" /\ ~Accepted(e.st)
  \/ e.kind = "GET" /\ e.st \notin {200, 404}

\* the request or wait e, now the last of the log h of call k, in its place
C13_Event(k, h, e) ==
  LET n == Len(h)
  IN /\ e.site = "init" =>
          /\ n <= 2 /\ e.key = Marker
          /\ n = 1 => e.kind = "GET"
          /\ n = 2 => e.kind = "PUT" /\ h[1].st = 404 /\ ~e.sha.def
     /\ e.site # "init" =>
          /\ n > 1
          /\ e.key \in FILES
          /\ h[1].site = "init"
          /\ h[1].st = 200 \/ (h[2].site = "init" /\ Accepted(h[2].st))
          /\ h[n - 1].site = "init" => e.key = "recipes"
          /\ (h[n - 1].site # "init" /\ h[n - 1].key # e.key) =>
               /\ Rank(e.key) = Rank(h[n - 1].key) + 1
               /\ h[n - 1].site = "refresh" /\ h[n - 1].st = 200
     /\ e.kind = "PUT" /\ e.site # "init" =>
          /\ e.data = k.preL[e.key]
          /\ \A i \in 1..(n - 1) :
               ~(h[i].kind = "PUT" /\ h[i].key = e.key /\ Accepted(h[i].st))
     /\ FailedRequest(e) =>
          /\ k.pc \in {"done", "sd_wait"}
          /\ k.pc = "done" => k.err = ErrorOf(e)
          /\ k.pc = "sd_wait" => e.kind = "PUT" /\ e.st = 409
     /\ (n > 1 /\ FailedRequest(h[n - 1])) => e.kind = "WAIT"
     /\ k.pc = "done" =>
          \/ k.err # "none" /\ FailedRequest(e)
          \/ /\ k.err = "none"
             /\ \A f \in FILES :
                  \E i \in 1..n : /\ h[i].kind = "PUT" /\ h[i].key = f
                                  /\ Accepted(h[i].st)

C13_Step ==
  /\ \A c \in Slots :
       (calls'[c].op = "migrateToGitHub" /\ calls'[c].backend = "github"
        /\ calls'[c] # calls[c]) =>
         LET h == SelectSeq(calls'[c].log, LAMBDA e : e.site # "idb")
         IN IF h = <<>>
            THEN calls'[c].pc = "done" => \A f \in FILES : calls'[c].preL[f] = <<>>
            ELSE /\ \E f \in FILES : calls'[c].preL[f] # <<>>
                 /\ C13_Event(calls'[c], h, h[Len(h)])
  /\ \A f \in PATHS :
       remote'[f] # remote[f] =>
         \/ calls' = calls
         \/ \E c \in Slots :
              LET p == LastPut(c)
              IN /\ p.kind = "PUT" /\ p.key = f /\ Accepted(p.st)
                 /\ \A g \in PATHS \ {f} : remote'[g] = remote[g]
                 /\ f \in FILES =>
                      remote'[f] = [exists |-> TRUE,
                                    text |-> Stringify(calls[c].preL[f])]

\* C13: a migration of non-empty local data first reads the marker file and
\* creates it when missing, then sends the writes of recipes, metadata,
\* planning and shoppingLists in that order, each dataset accepted once and
\* the first request for a dataset following the completed refresh read of
\* the dataset before it; a request that fails without being a retried
\* conflict is the last request of the call and its message is the error of
\* the result; the migration changes a file only by an accepted PUT of the
\* local collection; success is returned only with an accepted PUT for each
\* of the four datasets
C13_SequentialMigration == [][C13_Step]_vars

\* a migration has failed on the third dataset after two accepted writes
C13_Witness ==
  /\ MigFailed(1) /\ HadData(1)
  /\ calls[1].key = "planning"
  /\ Cardinality(AcceptedPuts(1)) >= 2

\* ------------------------------------------------------------------- C14
C14_Step ==
  \A c \in Slots :
    (calls'[c].op = "migrateToGitHub" /\ calls'[c] # calls[c]) =>
      LET k == calls'[c]
      IN /\ k.backend # "github" =>
              /\ k.pc = "done" /\ k.err # "none"
              /\ k.log = <<>>
              /\ UNCHANGED <<remote, local, httpCache, shaCache>>
         /\ (k.backend = "github" /\ ~HadData(c)') =>
              /\ k.pc \in {"m_export", "done"}
              /\ k.pc = "done" => k.err = "none"
              /\ \A j \in 1..Len(k.log) : k.log[j].site = "idb"
              /\ UNCHANGED <<remote, httpCache, shaCache>>

\* C14: a migration called with no token stored ends at once with
\* {success: false}, having read neither the local store nor the repository;
\* a migration of four empty local collections ends with {success: true}
\* after reading only the local store: it sends no request, the marker file
\* included, and the repository is as it was
C14_NothingToMigrate == [][C14_Step]_vars

\* a migration of an empty local store has returned success and the
\* repository has no marker file
C14_Witness ==
  /\ MigSucceeded(1) /\ ~HadData(1)
  /\ calls[1].backend = "github"
  /\ ~remote[Marker].exists
  /\ Len(LogOf(1)) > 0

\* ------------------------------------------------------------------- C15
\* C15: with no other writer, a migration called when the repository
\* already holds the four local collections (the state a first migration
\* leaves), or called with the local store empty, leaves the four remote
\* datasets with the array contents they had at the call, and no id occurs
\* twice in a remote dataset
C15_SecondMigrationChangesNothing ==
  \A c \in Slots :
    LET k == calls[c]
    IN (/\ world = "alone"
        /\ k.op = "migrateToGitHub" /\ k.backend = "github" /\ k.pc = "done"
        /\ k.pre = k.preL \/ ~HadData(c)) =>
         /\ k.err = "none"
         /\ StoreOf("github") = k.pre
         /\ \A f \in FILES : NoDup(RemoteArr(f))

\* a second migration of the same local data has written the four datasets
\* again
C15_Witness ==
  /\ world = "alone" /\ events.calls = 2
  /\ MigSucceeded(1) /\ HadData(1)
  /\ calls[1].pre = calls[1].preL
  /\ Cardinality(AcceptedPuts(1)) = 4

\* ------------------------------------------------------------------- C16
RecordsOf(arr) == {arr[j] : j \in 1..Len(arr)}
SameRecords(a, b) == \A f \in FILES : RecordsOf(a[f]) = RecordsOf(b[f])
EmptyStore(st) == \A f \in FILES : st[f] = <<>>
\* call c has imported the bundle of the last export into an empty store
RestoredIntoEmpty(c) ==
  /\ calls[c].op = "importAllData" /\ calls[c].pc = "done"
  /\ clip.has /\ calls[c].bundle = clip.data
  /\ EmptyStore(calls[c].pre)

\* C16: on either backend, the bundle of an export carries version 1 and
\* exactly the records the four collections held, and after that bundle has
\* been imported into an empty store of the same backend the four
\* collections hold exactly the records of the exported store
C16_ExportImportRoundTrip ==
  /\ clip.has =>
       /\ clip.ver = 1
       /\ SameRecords(clip.data, clip.of)
  /\ \A c \in Slots :
       RestoredIntoEmpty(c) => SameRecords(StoreOf(calls[c].backend), clip.of)

\* ------------------------------------------------------------------- C17
\* the records a store holding pre has after an upsert by id of every record
\* of the bundle b
UpsertedRecords(pre, b) ==
  {r \in RecordsOf(pre) : r.id \notin IdsOf(b)} \cup RecordsOf(b)

\* C17: on either backend, when importAllData has returned, each of the four
\* collections holds the records it held at the call whose id is not in the
\* bundle, and the records of the bundle: the outcome of an upsert by id,
\* the same on both backends
C17_ImportUpserts ==
  \A c \in Slots :
    (calls[c].op = "importAllData" /\ calls[c].pc = "done") =>
      \A f \in FILES :
        RecordsOf(StoreOf(calls[c].backend)[f])
          = UpsertedRecords(calls[c].pre[f], calls[c].bundle[f])

\* ------------------------------------------------------------------- C18
C18_Step ==
  /\ \A f \in PATHS :
       httpCache'[f] # httpCache[f] => httpCache'[f] = CurFile(f)
  /\ \A c \in Slots :
       LET g == LastGet(c)
           p == LastPut(c)
       IN /\ (g.kind = "GET" /\ g.site \in {"get", "read", "refresh"} /\ g.st = 200) =>
               /\ g.sha \in {CurFile(g.key).sha, httpCache[g.key].sha}
               /\ g.sha.def
               /\ shaCache' = [shaCache EXCEPT ![g.key] = g.sha]
          /\ (g.kind = "GET" /\ ~(g.site \in {"get", "read", "refresh"} /\ g.st = 200)) =>
               shaCache' = shaCache
          /\ p.kind = "PUT" => shaCache' = shaCache
          /\ (calls'[c].pc = "done" /\ calls[c].pc = "sd_reget") =>
               shaCache'[calls[c].key] = g.sha
  /\ shaCache' # shaCache =>
       \/ \E c \in Slots : LastGet(c).kind = "GET"
       \/ /\ events'.cfg = events.cfg + 1
          /\ \A f \in FILES : shaCache'[f] = NoSha

\* C18: the browser cache holds for a file only a response the repository
\* gave for it; a getData answered with an existing file, and the read that
\* saveData makes after its accepted PUT, set the shaCache entry of their own
\* dataset to the token of that response, which is the token the file has or
\* the token of the cached response, and leave the other entries as they
\* were; a failed read, a read that finds no file, the read saveData makes
\* before its PUT, and a PUT change no entry; no other step changes shaCache
\* except clearCache, which empties it
C18_ShaCacheHoldsReadTokens == [][C18_Step]_vars

\* a save has refreshed the entry of its dataset with the token of the array
\* it wrote while the entry of another dataset, set by an earlier read, is
\* still there
C18_Witness ==
  /\ calls[1].op = "saveRecipe" /\ calls[1].pc = "done"
  /\ shaCache["recipes"] = ShaOf(Stringify(calls[1].data))
  /\ \E f \in FILES \ {"recipes"} : shaCache[f].def

\* ------------------------------------------------------------------- C19
Quiet == \A c \in Slots : calls[c].pc = "idle"

\* C19: whenever no function of the recipes store is running, on either
\* backend, every metadata row has the id of a stored recipe and no id has
\* two metadata rows
C19_MetadataFollowsRecipes ==
  Quiet =>
    LET st == StoreOf(Route(token))
    IN /\ IdsOf(st["metadata"]) \subseteq IdsOf(st["recipes"])
       /\ NoDup(st["metadata"])

\* ------------------------------------------------------------------- C20
C20_Step ==
  \A i \in Ids :
    LET r == book.recipes[i]
        r2 == book'.recipes[i]
    IN /\ r # NoRecipe =>
            /\ r2 # NoRecipe /\ r2.id = i
            /\ r2 # r => r2.updatedAt > r.updatedAt
       /\ (r = NoRecipe /\ r2 # NoRecipe) =>
            r2.id = i /\ r2.createdAt = r2.updatedAt

\* C20: a stored recipe keeps its id, also when the updates of updateRecipe
\* carry another one; every step that changes a stored recipe stores an
\* updatedAt greater than the one stored before; a created recipe has
\* createdAt equal to updatedAt
C20_IdKeptUpdatedAtGrows == [][C20_Step]_vars

\* --------------------------------------------------- the shopping list page
\* the recipes a list can be generated from: at most MaxRecipes selected
\* recipes of at most MaxIngredients ingredients each
MaxRecipes == 2
MaxIngredients == 2

\* normalizeIngredientName: toLowerCase().trim().replace(/s$/, '')
\*   .replace(/^(du|de la|des|le|la|les|un|une|d')\s+/i, '')
FinalS == Cat(<<Chr({"s"}), Eos>>)
LeadingArticle ==
  Cat(<<Bos,
        Grp(1, Alt(<<Lit(<<"d", "u">>), Lit(<<"d", "e", " ", "l", "a">>),
                     Lit(<<"d", "e", "s">>), Lit(<<"l", "e">>),
                     Lit(<<"l", "a">>), Lit(<<"l", "e", "s">>),
                     Lit(<<"u", "n">>), Lit(<<"u", "n", "e">>),
                     Lit(<<"d", "'">>)>>)),
        Plus(Ws)>>)
normalizeIngredientName(name) ==
  ReplaceFirst(LeadingArticle,
               ReplaceFirst(FinalS, trim(toLowerCase(name)), <<>>, FALSE),
               <<>>, TRUE)

categories ==
  <<
    [category |-> "Fruits & Legumes",
      keywords |->
       {<<"t", "o", "m", "a", "t", "e">>,
        <<"c", "a", "r", "o", "t", "t", "e">>,
        <<"o", "i", "g", "n", "o", "n">>,
        <<"a", "i", "l">>,
        <<"p", "o", "m", "m", "e">>,
        <<"b", "a", "n", "a", "n", "e">>,
        <<"s", "a", "l", "a", "d", "e">>,
        <<"c", "o", "u", "r", "g", "e", "t", "t", "e">>,
        <<"p", "o", "i", "v", "r", "o", "n">>,
        <<"c", "h", "a", "m", "p", "i", "g", "n", "o", "n">>,
        <<"c", "i", "t", "r", "o", "n">>,
        <<"o", "r", "a", "n", "g", "e">>,
        <<"p", "o", "m", "m", "e", " ", "d", "e", " ", "t", "e", "r", "r", "e">>,
        <<"p", "a", "t", "a", "t", "e">>,
        <<"p", "o", "i", "r", "e", "a", "u">>,
        <<"c", "h", "o", "u">>,
        <<"b", "r", "o", "c", "o", "l", "i">>,
        <<"h", "a", "r", "i", "c", "o", "t">>,
        <<"p", "e", "t", "i", "t", " ", "p", "o", "i", "s">>,
        <<"e", "p", "i", "n", "a", "r", "d">>,
        <<"a", "v", "o", "c", "a", "t">>,
        <<"c", "o", "n", "c", "o", "m", "b", "r", "e">>,
        <<"a", "u", "b", "e", "r", "g", "i", "n", "e">>,
        <<"c", "e", "l", "e", "r", "i">>,
        <<"f", "e", "n", "o", "u", "i", "l">>,
        <<"g", "i", "n", "g", "e", "m", "b", "r", "e">>,
        <<"e", "c", "h", "a", "l", "o", "t", "e">>}],
    [category |-> "Viandes & Poissons",
      keywords |->
       {<<"p", "o", "u", "l", "e", "t">>,
        <<"b", "o", "e", "u", "f">>,
        <<"p", "o", "r", "c">>,
        <<"v", "e", "a", "u">>,
        <<"a", "g", "n", "e", "a", "u">>,
        <<"c", "a", "n", "a", "r", "d">>,
        <<"d", "i", "n", "d", "e">>,
        <<"s", "a", "u", "m", "o", "n">>,
        <<"t", "h", "o", "n">>,
        <<"c", "a", "b", "i", "l", "l", "a", "u", "d">>,
        <<"c", "r", "e", "v", "e", "t", "t", "e">>,
        <<"p", "o", "i", "s", "s", "o", "n">>,
        <<"v", "i", "a", "n", "d", "e">>,
        <<"l", "a", "r", "d", "o", "n", "s">>,
        <<"j", "a", "m", "b", "o", "n">>,
        <<"s", "a", "u", "c", "i", "s", "s", "e">>,
        <<"m", "e", "r", "g", "u", "e", "z">>,
        <<"s", "t", "e", "a", "k">>}],
    [category |-> "Produits laitiers",
      keywords |->
       {<<"l", "a", "i", "t">>,
        <<"f", "r", "o", "m", "a", "g", "e">>,
        <<"b", "e", "u", "r", "r", "e">>,
        <<"c", "r", "e", "m", "e">>,
        <<"y", "a", "o", "u", "r", "t">>,
        <<"o", "e", "u", "f">>,
        <<"p", "a", "r", "m", "e", "s", "a", "n">>,
        <<"m", "o", "z", "z", "a", "r", "e", "l", "l", "a">>,
        <<"g", "r", "u", "y", "e", "r", "e">>,
        <<"c", "h", "e", "v", "r", "e">>}],
    [category |-> "Epicerie",
      keywords |->
       {<<"r", "i", "z">>,
        <<"p", "a", "t", "e">>,
        <<"f", "a", "r", "i", "n", "e">>,
        <<"s", "u", "c", "r", "e">>,
        <<"s", "e", "l">>,
        <<"p", "o", "i", "v", "r", "e">>,
        <<"h", "u", "i", "l", "e">>,
        <<"v", "i", "n", "a", "i", "g", "r", "e">>,
        <<"m", "o", "u", "t", "a", "r", "d", "e">>,
        <<"s", "a", "u", "c", "e">>,
        <<"c", "o", "n", "s", "e", "r", "v", "e">>,
        <<"t", "o", "m", "a", "t", "e", " ", "p", "e", "l", "e", "e", "s">>,
        <<"c", "o", "n", "c", "e", "n", "t", "r", "e">>,
        <<"b", "o", "u", "i", "l", "l", "o", "n">>,
        <<"e", "p", "i", "c", "e">>,
        <<"h", "e", "r", "b", "e">>,
        <<"b", "a", "s", "i", "l", "i", "c">>,
        <<"p", "e", "r", "s", "i", "l">>,
        <<"t", "h", "y", "m">>,
        <<"r", "o", "m", "a", "r", "i", "n">>,
        <<"c", "u", "r", "r", "y">>,
        <<"p", "a", "p", "r", "i", "k", "a">>,
        <<"c", "u", "m", "i", "n">>}],
    [category |-> "Boulangerie",
      keywords |->
       {<<"p", "a", "i", "n">>,
        <<"b", "a", "g", "u", "e", "t", "t", "e">>,
        <<"b", "r", "i", "o", "c", "h", "e">>,
        <<"c", "r", "o", "i", "s", "s", "a", "n", "t">>}],
    [category |-> "Boissons",
      keywords |->
       {<<"e", "a", "u">>,
        <<"j", "u", "s">>,
        <<"v", "i", "n">>,
        <<"b", "i", "e", "r", "e">>,
        <<"s", "o", "d", "a">>,
        <<"c", "a", "f", "e">>,
        <<"t", "h", "e">>}],
    [category |-> "Surgeles",
      keywords |->
       {<<"g", "l", "a", "c", "e">>,
        <<"s", "u", "r", "g", "e", "l", "e">>,
        <<"c", "o", "n", "g", "e", "l", "e">>}]>>
\* guessCategory: the first category one of whose keywords the lowered name
\* includes, 'Autres' without one
RECURSIVE FirstCategory(_, _)
FirstCategory(cats, lower) ==
  IF cats = <<>> THEN "Autres"
  ELSE IF \E kw \in Head(cats).keywords : includes(lower, kw)
       THEN Head(cats).category
       ELSE FirstCategory(Tail(cats), lower)
guessCategory(name) == FirstCategory(categories, toLowerCase(name))

\* the order localeCompare gives the category names
CategoryRank(c) ==
  CASE c = "Autres" -> 1 [] c = "Boissons" -> 2 [] c = "Boulangerie" -> 3
    [] c = "Epicerie" -> 4 [] c = "Fruits & Legumes" -> 5
    [] c = "Produits laitiers" -> 6 [] c = "Surgeles" -> 7 [] OTHER -> 8
\* items.sort by category: a stable sort
RECURSIVE InsertByCategory(_, _)
InsertByCategory(sorted, x) ==
  IF sorted = <<>> THEN <<x>>
  ELSE IF CategoryRank(x.category) < CategoryRank(Head(sorted).category)
       THEN <<x>> \o sorted
       ELSE <<Head(sorted)>> \o InsertByCategory(Tail(sorted), x)
RECURSIVE SortByCategory(_)
SortByCategory(items) ==
  IF items = <<>> THEN <<>>
  ELSE InsertByCategory(SortByCategory(SubSeq(items, 1, Len(items) - 1)),
                        items[Len(items)])

\* ingredientMap: its entries in insertion order, each the key, the item and
\* the sources
KeyIndex(map, key) ==
  IF \E k \in 1..Len(map) : map[k].key = key
  THEN CHOOSE k \in 1..Len(map) : map[k].key = key
  ELSE 0
\* the body of the inner loop for one ingredient of the recipe called title;
\* an ingredient whose key is in the map adds its quantity when the units are
\* equal, and its title in either case
AddAt(map, title, ing, key, at) ==
  IF at > 0
  THEN [map EXCEPT
          ![at].item.quantity =
            IF map[at].item.unit = ing.unit THEN @ + ing.quantity ELSE @,
          ![at].sources = IF \E k \in 1..Len(@) : @[k] = title THEN @
                          ELSE Append(@, title)]
  ELSE Append(map, [key |-> key,
                    item |-> [name |-> ing.name, quantity |-> ing.quantity,
                              unit |-> ing.unit, checked |-> FALSE,
                              category |-> guessCategory(ing.name),
                              fromRecipes |-> <<title>>],
                    sources |-> <<title>>])
AddKeyed(map, title, ing, key) == AddAt(map, title, ing, key, KeyIndex(map, key))
AddIngredient(map, title, ing) ==
  AddKeyed(map, title, ing, normalizeIngredientName(ing.name))
RECURSIVE AddIngredients(_, _, _)
AddIngredients(map, title, ings) ==
  IF ings = <<>> THEN map
  ELSE AddIngredients(AddIngredient(map, title, Head(ings)), title, Tail(ings))
RECURSIVE AddRecipes(_, _)
AddRecipes(map, rs) ==
  IF rs = <<>> THEN map
  ELSE AddRecipes(AddIngredients(map, Head(rs).title, Head(rs).ingredients),
                  Tail(rs))

\* the decimal text of a natural number
RECURSIVE ToDecimal(_)
ToDecimal(n) ==
  LET d == <<"0", "1", "2", "3", "4", "5", "6", "7", "8", "9">>
  IN IF n < 10 THEN <<d[n + 1]>> ELSE ToDecimal(n \div 10) \o <<d[(n % 10) + 1]>>
\* titles.slice(0, 2).join(', ')
FirstTwoTitles(rs) ==
  IF Len(rs) = 0 THEN <<>>
  ELSE IF Len(rs) = 1 THEN rs[1].title
  ELSE rs[1].title \o <<",", " ">> \o rs[2].title
\* newListName.trim() || recipeNames + suffix
DefaultName(newListName, rs) ==
  IF trim(newListName) # <<>> THEN trim(newListName)
  ELSE FirstTwoTitles(rs)
         \o (IF Len(rs) > 2 THEN <<" ", "+">> \o ToDecimal(Len(rs) - 2) ELSE <<>>)

\* the list generateFromSelectedRecipes hands to saveShoppingList
ItemsOf(map) ==
  [k \in 1..Len(map) |-> [map[k].item EXCEPT !.fromRecipes = map[k].sources]]
NewList(newListName, rs) ==
  [name |-> DefaultName(newListName, rs),
   status |-> "active",
   items |-> SortByCategory(ItemsOf(AddRecipes(<<>>, rs)))]
NoList == [name |-> <<>>, status |-> "none", items |-> <<>>]

\* the ingredients a recipe of the page can carry
IngredientNames ==
  {<<"o", "e", "u", "f">>, <<"O", "e", "u", "f", "s">>,
   <<"f", "a", "r", "i", "n", "e">>}
IngredientUnits == {<<>>, <<"g">>}
Ingredients ==
  [name : IngredientNames, quantity : {1, 2}, unit : IngredientUnits]
IngredientLists ==
  UNION {[1..n -> Ingredients] : n \in 1..MaxIngredients}
\* the selected recipes, in the order of the recipes store
SelectedRecipes ==
  UNION {[1..n -> [title : {<<"A">>, <<"B">>}, ingredients : IngredientLists]]
           : n \in 0..MaxRecipes}

InitList ==
  /\ InitPage
  /\ \E rs \in SelectedRecipes :
       /\ \A k \in 1..Len(rs) : k = 1 => rs[k].title = <<"A">>
       /\ task = [fn |-> "generateFromSelectedRecipes", pc |-> "open",
                  selectedRecipes |-> rs, newListName |-> <<>>,
                  list |-> NoList]

\* the user types a name for the list
TypeListName ==
  /\ task.fn = "generateFromSelectedRecipes" /\ task.pc = "open"
  /\ task.newListName = <<>>
  /\ task' = [task EXCEPT !.newListName = <<" ", "W", " ">>]
  /\ PageFrame

\* generateFromSelectedRecipes: nothing without a selection; otherwise the
\* list is built and handed to saveShoppingList
generateFromSelectedRecipes ==
  /\ task.fn = "generateFromSelectedRecipes" /\ task.pc = "open"
  /\ task' = IF Len(task.selectedRecipes) = 0
             THEN [task EXCEPT !.pc = "returned"]
             ELSE [task EXCEPT
                     !.pc = "saved",
                     !.list = NewList(task.newListName, task.selectedRecipes)]
  /\ PageFrame

NextList == TypeListName \/ generateFromSelectedRecipes
SpecList == InitList /\ [][NextList]_vars

\* ------------------------------------------------------------------- C21
\* the ingredients of the selected recipes, each with the title of its recipe
RECURSIVE C21_Lines(_)
C21_Lines(rs) ==
  IF rs = <<>> THEN <<>>
  ELSE [k \in 1..Len(Head(rs).ingredients) |->
          [title |-> Head(rs).title,
           key |-> normalizeIngredientName(Head(rs).ingredients[k].name),
           unit |-> Head(rs).ingredients[k].unit,
           quantity |-> Head(rs).ingredients[k].quantity]]
         \o C21_Lines(Tail(rs))
RECURSIVE C21_Sum(_)
C21_Sum(qs) == IF qs = <<>> THEN 0 ELSE Head(qs).quantity + C21_Sum(Tail(qs))
C21_Asked(rs, key, unit) ==
  C21_Sum(SelectSeq(C21_Lines(rs), LAMBDA l : l.key = key /\ l.unit = unit))
C21_Listed(items, key, unit) ==
  C21_Sum(SelectSeq(items, LAMBDA x :
            normalizeIngredientName(x.name) = key /\ x.unit = unit))
C21_Generated ==
  task.fn = "generateFromSelectedRecipes" /\ task.pc = "saved"

\* C21: in the list generateFromSelectedRecipes builds, for every pair of a
\* normalized name and a unit the quantities of the items add up to the
\* quantities of the selected recipes' ingredients of that name and unit, and
\* every item's fromRecipes holds, once each, exactly the titles of the recipes
\* with an ingredient of the item's normalized name and unit
C21_MergedByNameAndUnit ==
  C21_Generated =>
    LET rs == task.selectedRecipes
        items == task.list.items
        lines == C21_Lines(rs)
    IN /\ \A k \in 1..Len(lines) :
            C21_Listed(items, lines[k].key, lines[k].unit)
              = C21_Asked(rs, lines[k].key, lines[k].unit)
       /\ \A j \in 1..Len(items) :
            /\ {items[j].fromRecipes[h] : h \in 1..Len(items[j].fromRecipes)}
                 = {lines[k].title : k \in
                      {k \in 1..Len(lines) :
                         /\ lines[k].key = normalizeIngredientName(items[j].name)
                         /\ lines[k].unit = items[j].unit}}
            /\ \A h, g \in 1..Len(items[j].fromRecipes) :
                 items[j].fromRecipes[h] = items[j].fromRecipes[g] => h = g

\* ------------------------------------------------------- the recipe parser
\* HTML_ENTITIES
HTML_ENTITIES ==
  <<[entity |-> <<"&", "a", "m", "p", ";">>, char |-> <<"&">>],
    [entity |-> <<"&", "l", "t", ";">>, char |-> <<"<">>],
    [entity |-> <<"&", "g", "t", ";">>, char |-> <<">">>],
    [entity |-> <<"&", "q", "u", "o", "t", ";">>, char |-> <<"\"">>],
    [entity |-> <<"&", "a", "p", "o", "s", ";">>, char |-> <<"'">>],
    [entity |-> <<"&", "n", "b", "s", "p", ";">>, char |-> <<" ">>],
    [entity |-> <<"&", "e", "a", "c", "u", "t", "e", ";">>, char |-> <<"é">>],
    [entity |-> <<"&", "e", "g", "r", "a", "v", "e", ";">>, char |-> <<"è">>],
    [entity |-> <<"&", "e", "c", "i", "r", "c", ";">>, char |-> <<"ê">>],
    [entity |-> <<"&", "e", "u", "m", "l", ";">>, char |-> <<"ë">>],
    [entity |-> <<"&", "a", "g", "r", "a", "v", "e", ";">>, char |-> <<"à">>],
    [entity |-> <<"&", "a", "c", "i", "r", "c", ";">>, char |-> <<"â">>],
    [entity |-> <<"&", "a", "u", "m", "l", ";">>, char |-> <<"ä">>],
    [entity |-> <<"&", "u", "g", "r", "a", "v", "e", ";">>, char |-> <<"ù">>],
    [entity |-> <<"&", "u", "c", "i", "r", "c", ";">>, char |-> <<"û">>],
    [entity |-> <<"&", "u", "u", "m", "l", ";">>, char |-> <<"ü">>],
    [entity |-> <<"&", "o", "c", "i", "r", "c", ";">>, char |-> <<"ô">>],
    [entity |-> <<"&", "o", "u", "m", "l", ";">>, char |-> <<"ö">>],
    [entity |-> <<"&", "i", "c", "i", "r", "c", ";">>, char |-> <<"î">>],
    [entity |-> <<"&", "i", "u", "m", "l", ";">>, char |-> <<"ï">>],
    [entity |-> <<"&", "c", "c", "e", "d", "i", "l", ";">>, char |-> <<"ç">>],
    [entity |-> <<"&", "o", "e", "l", "i", "g", ";">>, char |-> <<"U+0153">>],
    [entity |-> <<"&", "a", "e", "l", "i", "g", ";">>, char |-> <<"æ">>],
    [entity |-> <<"&", "E", "a", "c", "u", "t", "e", ";">>, char |-> <<"É">>],
    [entity |-> <<"&", "E", "g", "r", "a", "v", "e", ";">>, char |-> <<"È">>],
    [entity |-> <<"&", "E", "c", "i", "r", "c", ";">>, char |-> <<"Ê">>],
    [entity |-> <<"&", "A", "g", "r", "a", "v", "e", ";">>, char |-> <<"À">>],
    [entity |-> <<"&", "A", "c", "i", "r", "c", ";">>, char |-> <<"Â">>],
    [entity |-> <<"&", "U", "g", "r", "a", "v", "e", ";">>, char |-> <<"Ù">>],
    [entity |-> <<"&", "U", "c", "i", "r", "c", ";">>, char |-> <<"Û">>],
    [entity |-> <<"&", "O", "c", "i", "r", "c", ";">>, char |-> <<"Ô">>],
    [entity |-> <<"&", "I", "c", "i", "r", "c", ";">>, char |-> <<"Î">>],
    [entity |-> <<"&", "C", "c", "e", "d", "i", "l", ";">>, char |-> <<"Ç">>],
    [entity |-> <<"&", "d", "e", "g", ";">>, char |-> <<"°">>],
    [entity |-> <<"&", "f", "r", "a", "c", "1", "2", ";">>, char |-> <<"½">>],
    [entity |-> <<"&", "f", "r", "a", "c", "1", "4", ";">>, char |-> <<"¼">>],
    [entity |-> <<"&", "f", "r", "a", "c", "3", "4", ";">>, char |-> <<"¾">>],
    [entity |-> <<"&", "r", "s", "q", "u", "o", ";">>, char |-> <<"U+2019">>],
    [entity |-> <<"&", "l", "s", "q", "u", "o", ";">>, char |-> <<"U+2018">>],
    [entity |-> <<"&", "r", "d", "q", "u", "o", ";">>, char |-> <<"U+201D">>],
    [entity |-> <<"&", "l", "d", "q", "u", "o", ";">>, char |-> <<"U+201C">>],
    [entity |-> <<"&", "n", "d", "a", "s", "h", ";">>, char |-> <<"U+2013">>],
    [entity |-> <<"&", "m", "d", "a", "s", "h", ";">>, char |-> <<"U+2014">>],
    [entity |-> <<"&", "h", "e", "l", "l", "i", "p", ";">>, char |-> <<"U+2026">>]>>
\* unitMap of normalizeUnit
unitMap ==
  <<[key |-> <<"c", "u", "p">>, value |-> <<"t", "a", "s", "s", "e">>],
    [key |-> <<"c", "u", "p", "s">>, value |-> <<"t", "a", "s", "s", "e", "s">>],
    [key |-> <<"t", "b", "s", "p">>, value |-> <<"c", ".", " ", "à", " ", "s", "o", "u", "p", "e">>],
    [key |-> <<"t", "a", "b", "l", "e", "s", "p", "o", "o", "n">>, value |-> <<"c", ".", " ", "à", " ", "s", "o", "u", "p", "e">>],
    [key |-> <<"t", "a", "b", "l", "e", "s", "p", "o", "o", "n", "s">>, value |-> <<"c", ".", " ", "à", " ", "s", "o", "u", "p", "e">>],
    [key |-> <<"t", "s", "p">>, value |-> <<"c", ".", " ", "à", " ", "c", "a", "f", "é">>],
    [key |-> <<"t", "e", "a", "s", "p", "o", "o", "n">>, value |-> <<"c", ".", " ", "à", " ", "c", "a", "f", "é">>],
    [key |-> <<"t", "e", "a", "s", "p", "o", "o", "n", "s">>, value |-> <<"c", ".", " ", "à", " ", "c", "a", "f", "é">>],
    [key |-> <<"c", ".", " ", "à", " ", "s", ".">>, value |-> <<"c", ".", " ", "à", " ", "s", "o", "u", "p", "e">>],
    [key |-> <<"c", ".", " ", "à", " ", "c", ".">>, value |-> <<"c", ".", " ", "à", " ", "c", "a", "f", "é">>],
    [key |-> <<"c", "u", "i", "l", "l", "è", "r", "e", " ", "à", " ", "s", "o", "u", "p", "e">>, value |-> <<"c", ".", " ", "à", " ", "s", "o", "u", "p", "e">>],
    [key |-> <<"c", "u", "i", "l", "l", "è", "r", "e", "s", " ", "à", " ", "s", "o", "u", "p", "e">>, value |-> <<"c", ".", " ", "à", " ", "s", "o", "u", "p", "e">>],
    [key |-> <<"c", "u", "i", "l", "l", "è", "r", "e", " ", "à", " ", "c", "a", "f", "é">>, value |-> <<"c", ".", " ", "à", " ", "c", "a", "f", "é">>],
    [key |-> <<"c", "u", "i", "l", "l", "è", "r", "e", "s", " ", "à", " ", "c", "a", "f", "é">>, value |-> <<"c", ".", " ", "à", " ", "c", "a", "f", "é">>],
    [key |-> <<"g", "r", "a", "m", "m", "e">>, value |-> <<"g">>],
    [key |-> <<"g", "r", "a", "m", "m", "e", "s">>, value |-> <<"g">>],
    [key |-> <<"k", "i", "l", "o", "g", "r", "a", "m", "m", "e">>, value |-> <<"k", "g">>],
    [key |-> <<"k", "i", "l", "o", "g", "r", "a", "m", "m", "e", "s">>, value |-> <<"k", "g">>],
    [key |-> <<"l", "i", "t", "r", "e">>, value |-> <<"L">>],
    [key |-> <<"l", "i", "t", "r", "e", "s">>, value |-> <<"L">>],
    [key |-> <<"l">>, value |-> <<"L">>],
    [key |-> <<"o", "u", "n", "c", "e">>, value |-> <<"o", "z">>],
    [key |-> <<"o", "u", "n", "c", "e", "s">>, value |-> <<"o", "z">>],
    [key |-> <<"p", "o", "u", "n", "d">>, value |-> <<"l", "b">>],
    [key |-> <<"p", "o", "u", "n", "d", "s">>, value |-> <<"l", "b">>],
    [key |-> <<"l", "b", "s">>, value |-> <<"l", "b">>],
    [key |-> <<"p", "i", "e", "c", "e">>, value |-> <<>>],
    [key |-> <<"p", "i", "e", "c", "e", "s">>, value |-> <<>>],
    [key |-> <<"p", "i", "è", "c", "e">>, value |-> <<>>],
    [key |-> <<"p", "i", "è", "c", "e", "s">>, value |-> <<>>]>>
\* the unit pattern of parseIngredientString, with the i flag
unitPattern ==
  Cat(<<Bos, Grp(1, Cat(<<Plus(Chr(Digits \cup {"/", ".", ","})),
    Opt(Cat(<<Star(Ws), Plus(Chr(Digits \cup {"/"}))>>))>>)), Star(Ws),
    Grp(2, Alt(<<Cat(<<Lit(<<"c", "u", "p">>), Opt(Chr({"s"}))>>),
    Cat(<<Lit(<<"t", "a", "s", "s", "e">>), Opt(Chr({"s"}))>>),
    Cat(<<Lit(<<"c", ".">>), Star(Ws), Chr({"à"}), Star(Ws), Chr({"s"}),
    Opt(Chr({"."}))>>), Cat(<<Lit(<<"c", ".">>), Star(Ws), Chr({"à"}),
    Star(Ws), Chr({"c"}), Opt(Chr({"."}))>>), Cat(<<Lit(<<"c", "u", "i", "l",
    "l", "è", "r", "e">>), Opt(Chr({"s"})), Star(Ws), Chr({"à"}), Star(Ws),
    Alt(<<Lit(<<"s", "o", "u", "p", "e">>), Lit(<<"c", "a", "f",
    "é">>)>>)>>), Cat(<<Lit(<<"t", "b", "s">>), Opt(Chr({"p"}))>>),
    Cat(<<Lit(<<"t", "s">>), Opt(Chr({"p"}))>>), Cat(<<Lit(<<"t", "a", "b",
    "l", "e", "s", "p", "o", "o", "n">>), Opt(Chr({"s"}))>>),
    Cat(<<Lit(<<"t", "e", "a", "s", "p", "o", "o", "n">>),
    Opt(Chr({"s"}))>>), Lit(<<"m", "l">>), Lit(<<"c", "l">>), Chr({"l"}),
    Cat(<<Lit(<<"l", "i", "t", "r", "e">>), Opt(Chr({"s"}))>>), Chr({"g"}),
    Lit(<<"k", "g">>), Cat(<<Lit(<<"g", "r", "a", "m", "m", "e">>),
    Opt(Chr({"s"}))>>), Cat(<<Lit(<<"k", "i", "l", "o", "g", "r", "a", "m",
    "m", "e">>), Opt(Chr({"s"}))>>), Lit(<<"o", "z">>), Cat(<<Lit(<<"o", "u",
    "n", "c", "e">>), Opt(Chr({"s"}))>>), Lit(<<"l", "b">>), Cat(<<Lit(<<"l",
    "b">>), Opt(Chr({"s"}))>>), Cat(<<Lit(<<"p", "o", "u", "n", "d">>),
    Opt(Chr({"s"}))>>), Cat(<<Lit(<<"t", "r", "a", "n", "c", "h", "e">>),
    Opt(Chr({"s"}))>>), Cat(<<Lit(<<"s", "l", "i", "c", "e">>),
    Opt(Chr({"s"}))>>), Cat(<<Lit(<<"g", "o", "u", "s", "s", "e">>),
    Opt(Chr({"s"}))>>), Cat(<<Lit(<<"c", "l", "o", "v", "e">>),
    Opt(Chr({"s"}))>>)>>)), Plus(Ws), Opt(Cat(<<Lit(<<"d", "e">>),
    Plus(Ws)>>)), Grp(3, Plus(AnyChar)), Eos>>)
\* the pattern of a quantity followed by a name
noUnitPattern ==
  Cat(<<Bos, Grp(1, Plus(Chr(Digits \cup {"/", ".", ","}))), Plus(Ws), Grp(2,
    Plus(AnyChar)), Eos>>)
\* the patterns of decodeHtmlEntities
NamedEntity ==
  Cat(<<Chr({"&"}), Plus(Chr(Letters)), Chr({";"})>>)
DecimalEntity ==
  Cat(<<Lit(<<"&", "#">>), Grp(1, Plus(Digit)), Chr({";"})>>)
HexEntity ==
  Cat(<<Lit(<<"&", "#", "x">>), Grp(1, Plus(Chr(Digits \cup {"a", "b", "c",
    "d", "e", "f", "A", "B", "C", "D", "E", "F"}))), Chr({";"})>>)
\* the pattern of parseDuration
DurationPattern ==
  Cat(<<Lit(<<"P", "T">>), Opt(Cat(<<Grp(1, Plus(Digit)), Chr({"H"})>>)),
    Opt(Cat(<<Grp(2, Plus(Digit)), Chr({"M"})>>))>>)
\* table[key] for a table of rows: found or not, and the value
Lookup(table, keyField, valField, key) ==
  IF \E k \in 1..Len(table) : table[k][keyField] = key
  THEN [found |-> TRUE,
        value |-> table[CHOOSE k \in 1..Len(table) : table[k][keyField] = key][valField]]
  ELSE [found |-> FALSE, value |-> <<>>]

\* String.fromCharCode for the codes the texts carry (a character outside
\* Latin-1 is written U+ and its code)
CharCodes ==
  <<[code |-> 32, char |-> " "], [code |-> 38, char |-> "&"],
    [code |-> 39, char |-> "'"], [code |-> 224, char |-> "à"],
    [code |-> 233, char |-> "é"]>>
fromCharCode(n) ==
  IF \E k \in 1..Len(CharCodes) : CharCodes[k].code = n
  THEN CharCodes[CHOOSE k \in 1..Len(CharCodes) : CharCodes[k].code = n].char
  ELSE "U+FFFD"
\* parseInt(hex, 16)
HexDigits == <<"0", "1", "2", "3", "4", "5", "6", "7", "8", "9",
               "a", "b", "c", "d", "e", "f">>
RECURSIVE HexValue(_)
HexValue(ds) ==
  IF ds = <<>> THEN 0
  ELSE 16 * HexValue(SubSeq(ds, 1, Len(ds) - 1))
         + (CHOOSE v \in 0..15 : HexDigits[v + 1] = LowerChar(ds[Len(ds)]))

\* the three replace passes of decodeHtmlEntities
RECURSIVE DecodeNamed(_)
NamedChar(entity, row) == IF row.found THEN row.value ELSE entity
NamedOf(entity) == NamedChar(entity, Lookup(HTML_ENTITIES, "entity", "char", entity))
NamedFrom(text, m) ==
  IF ~m.found THEN text
  ELSE Slice(text, 1, m.start)
         \o NamedOf(Slice(text, m.start, m.end))
         \o DecodeNamed(Slice(text, m.end, Len(text) + 1))
DecodeNamed(text) == NamedFrom(text, Exec(NamedEntity, text, FALSE))
RECURSIVE DecodeDecimal(_)
DecimalFrom(text, m) ==
  IF ~m.found THEN text
  ELSE Slice(text, 1, m.start)
         \o <<fromCharCode(DigitsValue(Group(m, text, 1)))>>
         \o DecodeDecimal(Slice(text, m.end, Len(text) + 1))
DecodeDecimal(text) == DecimalFrom(text, Exec(DecimalEntity, text, FALSE))
RECURSIVE DecodeHex(_)
HexFrom(text, m) ==
  IF ~m.found THEN text
  ELSE Slice(text, 1, m.start)
         \o <<fromCharCode(HexValue(Group(m, text, 1)))>>
         \o DecodeHex(Slice(text, m.end, Len(text) + 1))
DecodeHex(text) == HexFrom(text, Exec(HexEntity, text, FALSE))
\* new DOMParser().parseFromString(decoded, 'text/html').body.textContent, for
\* a text without markup whose entity references end with their semicolon:
\* the references the passes left or produced are decoded
DomTextContent(decoded) == DecodeHex(DecodeDecimal(DecodeNamed(decoded)))
\* textContent || decoded
ContentOr(content, decoded) == IF content # <<>> THEN content ELSE decoded
DecodedContent(decoded) == ContentOr(DomTextContent(decoded), decoded)
decodeHtmlEntities(text) ==
  IF text = <<>> THEN text
  ELSE DecodedContent(DecodeHex(DecodeDecimal(DecodeNamed(text))))

\* normalizeUnit: unitMap[unit.toLowerCase()] || unit. An empty value of the
\* table is falsy; 'constructor' is no row of the table and yet a property
\* of the object, inherited from Object.prototype
ObjectConstructor == <<"function Object() { [native code] }">>
UnitOf(row, unit, lower) ==
  IF row.found
  THEN (IF row.value # <<>> THEN row.value ELSE unit)
  ELSE IF lower = <<"c", "o", "n", "s", "t", "r", "u", "c", "t", "o", "r">>
       THEN ObjectConstructor
       ELSE unit
UnitFor(unit, lower) == UnitOf(Lookup(unitMap, "key", "value", lower), unit, lower)
normalizeUnit(unit) == UnitFor(unit, toLowerCase(unit))

\* one part of a quantity with a fraction
Fraction(pieces) == DivNum(parseInt(pieces[1]), parseInt(pieces[2]))
QuantityPart(part) ==
  IF includes(part, <<"/">>)
  THEN Fraction(SplitOn(part, {"/"}, FALSE))
  ELSE OrNum(parseFloat(part), IntNum(0))
RECURSIVE QuantityTotal(_)
QuantityTotal(parts) ==
  IF parts = <<>> THEN IntNum(0)
  ELSE PlusNum(QuantityTotal(SubSeq(parts, 1, Len(parts) - 1)),
               QuantityPart(parts[Len(parts)]))
\* parseQuantity
QuantityOf(str) ==
  IF includes(str, <<"/">>)
  THEN QuantityTotal(SplitOn(str, WhiteSpace, TRUE))
  ELSE OrNum(parseFloat(str), IntNum(1))
parseQuantity(text) == QuantityOf(trim(ReplaceFirst(Chr({","}), text, <<".">>, FALSE)))

\* parseIngredientString, the patterns tried in the order given
MatchOf(p, str) == [p |-> p, m |-> Exec(p.re, str, p.ci)]
FirstFound(a, b) == IF a.m.found THEN a ELSE b
Result(found, str) ==
  IF ~found.m.found THEN [quantity |-> IntNum(1), unit |-> <<>>, name |-> str]
  ELSE [quantity |-> parseQuantity(Group(found.m, str, 1)),
        unit |-> IF found.p.unit THEN normalizeUnit(Group(found.m, str, 2))
                 ELSE <<>>,
        name |-> trim(Group(found.m, str, IF found.p.unit THEN 3 ELSE 2))]
TryOn(first, second, str) ==
  Result(FirstFound(MatchOf(first, str), MatchOf(second, str)), str)
TryPatterns(first, second, text) ==
  TryOn(first, second,
        ReplaceAll(Plus(Ws), trim(decodeHtmlEntities(text)), <<" ">>, FALSE))
WithUnit == [re |-> unitPattern, ci |-> TRUE, unit |-> TRUE]
WithoutUnit == [re |-> noUnitPattern, ci |-> FALSE, unit |-> FALSE]
PatternOrderSwapped == <<WithoutUnit, WithUnit>>
\* the unit pattern first, the pattern without unit second
PatternOrder == <<WithUnit, WithoutUnit>>
parseIngredientString(text) == TryPatterns(PatternOrder[1], PatternOrder[2], text)

\* a text that may be undefined
Undefined == [def |-> FALSE, text |-> <<>>]
Text(s) == [def |-> TRUE, text |-> s]
\* parseDuration: undefined for an undefined or empty text and for a text the
\* pattern is not found in, else the minutes
NoDuration == [def |-> FALSE, minutes |-> 0]
DurationPart(m, text, n) ==
  IF Took(m, n) /\ Group(m, text, n) # <<>>
  THEN DigitsValue(DigitRun(Group(m, text, n))) ELSE 0
DurationOf(m, text) ==
  IF ~m.found THEN NoDuration
  ELSE [def |-> TRUE,
        minutes |-> DurationPart(m, text, 1) * 60 + DurationPart(m, text, 2)]
parseDuration(duration) ==
  IF ~duration.def \/ duration.text = <<>> THEN NoDuration
  ELSE DurationOf(Exec(DurationPattern, duration.text, FALSE), duration.text)

\* the units normalizeUnit is called with: every key of the table in lower
\* case, in upper case and capitalised, and texts that are no key
UnitKeyTexts ==
  {<<"c", "u", "p">>,
   <<"C", "U", "P">>,
   <<"C", "u", "p">>,
   <<"c", "u", "p", "s">>,
   <<"C", "U", "P", "S">>,
   <<"C", "u", "p", "s">>,
   <<"t", "b", "s", "p">>,
   <<"T", "B", "S", "P">>,
   <<"T", "b", "s", "p">>,
   <<"t", "a", "b", "l", "e", "s", "p", "o", "o", "n">>,
   <<"T", "A", "B", "L", "E", "S", "P", "O", "O", "N">>,
   <<"T", "a", "b", "l", "e", "s", "p", "o", "o", "n">>,
   <<"t", "a", "b", "l", "e", "s", "p", "o", "o", "n", "s">>,
   <<"T", "A", "B", "L", "E", "S", "P", "O", "O", "N", "S">>,
   <<"T", "a", "b", "l", "e", "s", "p", "o", "o", "n", "s">>,
   <<"t", "s", "p">>,
   <<"T", "S", "P">>,
   <<"T", "s", "p">>,
   <<"t", "e", "a", "s", "p", "o", "o", "n">>,
   <<"T", "E", "A", "S", "P", "O", "O", "N">>,
   <<"T", "e", "a", "s", "p", "o", "o", "n">>,
   <<"t", "e", "a", "s", "p", "o", "o", "n", "s">>,
   <<"T", "E", "A", "S", "P", "O", "O", "N", "S">>,
   <<"T", "e", "a", "s", "p", "o", "o", "n", "s">>,
   <<"c", ".", " ", "à", " ", "s", ".">>,
   <<"C", ".", " ", "À", " ", "S", ".">>,
   <<"C", ".", " ", "à", " ", "s", ".">>,
   <<"c", ".", " ", "à", " ", "c", ".">>,
   <<"C", ".", " ", "À", " ", "C", ".">>,
   <<"C", ".", " ", "à", " ", "c", ".">>,
   <<"c", "u", "i", "l", "l", "è", "r", "e", " ", "à", " ", "s", "o", "u", "p", "e">>,
   <<"C", "U", "I", "L", "L", "È", "R", "E", " ", "À", " ", "S", "O", "U", "P", "E">>,
   <<"C", "u", "i", "l", "l", "è", "r", "e", " ", "à", " ", "s", "o", "u", "p", "e">>,
   <<"c", "u", "i", "l", "l", "è", "r", "e", "s", " ", "à", " ", "s", "o", "u", "p", "e">>,
   <<"C", "U", "I", "L", "L", "È", "R", "E", "S", " ", "À", " ", "S", "O", "U", "P", "E">>,
   <<"C", "u", "i", "l", "l", "è", "r", "e", "s", " ", "à", " ", "s", "o", "u", "p", "e">>,
   <<"c", "u", "i", "l", "l", "è", "r", "e", " ", "à", " ", "c", "a", "f", "é">>,
   <<"C", "U", "I", "L", "L", "È", "R", "E", " ", "À", " ", "C", "A", "F", "É">>,
   <<"C", "u", "i", "l", "l", "è", "r", "e", " ", "à", " ", "c", "a", "f", "é">>,
   <<"c", "u", "i", "l", "l", "è", "r", "e", "s", " ", "à", " ", "c", "a", "f", "é">>,
   <<"C", "U", "I", "L", "L", "È", "R", "E", "S", " ", "À", " ", "C", "A", "F", "É">>,
   <<"C", "u", "i", "l", "l", "è", "r", "e", "s", " ", "à", " ", "c", "a", "f", "é">>,
   <<"g", "r", "a", "m", "m", "e">>,
   <<"G", "R", "A", "M", "M", "E">>,
   <<"G", "r", "a", "m", "m", "e">>,
   <<"g", "r", "a", "m", "m", "e", "s">>,
   <<"G", "R", "A", "M", "M", "E", "S">>,
   <<"G", "r", "a", "m", "m", "e", "s">>,
   <<"k", "i", "l", "o", "g", "r", "a", "m", "m", "e">>,
   <<"K", "I", "L", "O", "G", "R", "A", "M", "M", "E">>,
   <<"K", "i", "l", "o", "g", "r", "a", "m", "m", "e">>,
   <<"k", "i", "l", "o", "g", "r", "a", "m", "m", "e", "s">>,
   <<"K", "I", "L", "O", "G", "R", "A", "M", "M", "E", "S">>,
   <<"K", "i", "l", "o", "g", "r", "a", "m", "m", "e", "s">>,
   <<"l", "i", "t", "r", "e">>,
   <<"L", "I", "T", "R", "E">>,
   <<"L", "i", "t", "r", "e">>,
   <<"l", "i", "t", "r", "e", "s">>,
   <<"L", "I", "T", "R", "E", "S">>,
   <<"L", "i", "t", "r", "e", "s">>,
   <<"l">>,
   <<"L">>,
   <<"o", "u", "n", "c", "e">>,
   <<"O", "U", "N", "C", "E">>,
   <<"O", "u", "n", "c", "e">>,
   <<"o", "u", "n", "c", "e", "s">>,
   <<"O", "U", "N", "C", "E", "S">>,
   <<"O", "u", "n", "c", "e", "s">>,
   <<"p", "o", "u", "n", "d">>,
   <<"P", "O", "U", "N", "D">>,
   <<"P", "o", "u", "n", "d">>,
   <<"p", "o", "u", "n", "d", "s">>,
   <<"P", "O", "U", "N", "D", "S">>,
   <<"P", "o", "u", "n", "d", "s">>,
   <<"l", "b", "s">>,
   <<"L", "B", "S">>,
   <<"L", "b", "s">>,
   <<"p", "i", "e", "c", "e">>,
   <<"P", "I", "E", "C", "E">>,
   <<"P", "i", "e", "c", "e">>,
   <<"p", "i", "e", "c", "e", "s">>,
   <<"P", "I", "E", "C", "E", "S">>,
   <<"P", "i", "e", "c", "e", "s">>,
   <<"p", "i", "è", "c", "e">>,
   <<"P", "I", "È", "C", "E">>,
   <<"P", "i", "è", "c", "e">>,
   <<"p", "i", "è", "c", "e", "s">>,
   <<"P", "I", "È", "C", "E", "S">>,
   <<"P", "i", "è", "c", "e", "s">>}
OtherUnitTexts ==
  {<<>>,
   <<"g">>,
   <<"k", "g">>,
   <<"x">>,
   <<"p", "i", "n", "c", "é", "e">>,
   <<"c", "u", "p", " ">>,
   <<"t", "a", "s", "s", "e">>,
   <<"c", "o", "n", "s", "t", "r", "u", "c", "t", "o", "r">>}
\* the ingredient texts of the tests
TestedIngredientTexts ==
  {<<"2", "0", "0", "g", " ", "d", "e", " ", "f", "a", "r", "i", "n", "e">>,
   <<"2", " ", "c", "u", "p", "s", " ", "f", "l", "o", "u", "r">>,
   <<"2", " ", "c", ".", " ", "à", " ", "s", ".", " ", "d", "e", " ", "s", "u", "c", "r", "e">>,
   <<"1", "/", "2", " ", "c", "u", "p", " ", "m", "i", "l", "k">>,
   <<"s", "e", "l">>}
\* '2 ' + k + ' x' for every key k of the unit table
KeyIngredientTexts ==
  {<<"2", " ">> \o unitMap[k].key \o <<" ", "x">> : k \in 1..Len(unitMap)}
\* further ingredient texts: entities, white space, letter case, quantities
\* that are no number, texts without unit or without name
OtherIngredientTexts ==
  {<<" ", " ", "2", " ", " ", " ", "c", "u", "p", "s", "&", "n", "b", "s", "p", ";", "f", "l", "o", "u", "r", " ">>,
   <<"2", " ", "c", ".", " ", "&", "a", "g", "r", "a", "v", "e", ";", " ", "s", ".", " ", "d", "e", " ", "s", "u", "c", "r", "e">>,
   <<"3", "&", "#", "3", "9", ";", "4", " ", "x">>,
   <<"2", "5", "0", " ", "G", " ", "d", "e", " ", "F", "a", "r", "i", "n", "e">>,
   <<"1", " ", "1", "/", "2", " ", "t", "a", "s", "s", "e", "s", " ", "d", "e", " ", "l", "a", "i", "t">>,
   <<"2", ",", "5", " ", "k", "g", " ", "p", "o", "m", "m", "e", "s">>,
   <<"2", " ", "o", "e", "u", "f", "s">>,
   <<"1", "/", "0", " ", "l", " ", "e", "a", "u">>,
   <<"/", " ", "g", " ", "x">>,
   <<"2", " ", "d", "e", " ", "l", "a", "i", "t">>,
   <<"2", "c", "u", "p", "s">>,
   <<"g", " ", "d", "e", " ", "s", "e", "l">>,
   <<"2", " ", "l", " ", "d", "e", " ", "d", "e", " ", "l", "a", "i", "t">>,
   <<"1", "2">>,
   <<"&", "a", "m", "p", ";", "a", "g", "r", "a", "v", "e", ";", " ", "x">>,
   <<"2", " ", "C", "U", "I", "L", "L", "È", "R", "E", "S", " ", "À", " ", "S", "O", "U", "P", "E", " ", "h", "u", "i", "l", "e">>,
   <<"1", ".", "5", " ", "l", "\n", " ", "e", "a", "u">>,
   <<"3", " ", "l", "b", "s", " ", "b", "o", "e", "u", "f">>,
   <<"2", " ", "l", "i", "t", "r", "e", "s", " ", "l", "a", "i", "t">>,
   <<"1", "/", " ", "g", " ", "x">>}
\* ingredient texts put together from a quantity, a gap, a unit, a gap, 'de'
\* and a name, each of them present or absent
ComposedIngredientTexts ==
  {qt \o gap \o u \o sep \o de \o nm :
     qt \in {<<>>, <<"2">>, <<"1", "/", "2">>, <<"2", ",", "5">>, <<"1", " ", "1", "/", "2">>},
     gap \in {<<>>, <<" ">>},
     u \in {<<>>, <<"g">>, <<"l">>, <<"c", "u", "p", "s">>, <<"c", ".", " ", "à", " ", "s", ".">>, <<"p", "i", "e", "c", "e">>},
     sep \in {<<>>, <<" ">>},
     de \in {<<>>, <<"d", "e", " ">>},
     nm \in {<<>>, <<"x">>, <<"f", "a", "r", "i", "n", "e">>}}

\* the quantity texts parseQuantity is called with: every text of at most
\* MaxQuantityLen characters of the alphabet, and the texts of the tests
MaxQuantityLen == 4
QuantityAlphabet == {"0", "1", "2", "5", "/", ",", ".", " ", "a"}
QuantityTexts ==
  UNION {[1..n -> QuantityAlphabet] : n \in 0..MaxQuantityLen}
    \cup {<<"1", " ", "1", "/", "2">>, <<"1", "/", "2", " ", "1", "/", "2">>,
          <<"1", ",", "5", ",", "5">>}

\* the duration texts parseDuration is called with: designators put together,
\* alone or with text around them, and texts that are no duration
DurationTexts ==
  {a \o <<"P">> \o d \o <<"T">> \o h \o m \o s \o z :
     a \in {<<>>, <<"x">>}, d \in {<<>>, <<"1", "D">>},
     h \in {<<>>, <<"1", "H">>, <<"1", "2", "H">>},
     m \in {<<>>, <<"5", "M">>, <<"3", "0", "M">>},
     s \in {<<>>, <<"1", "5", "S">>}, z \in {<<>>, <<"x">>}}
    \cup {<<>>, <<"a", "b", "c">>, <<"1", "H", "3", "0", "M">>,
          <<"p", "t", "1", "h">>, <<"P", "1", "D">>, <<"T", "5", "M">>,
          <<"P", "T", "M">>, <<"P", "T", "3", "0", "M", "1", "H">>}

\* ------------------------------------------------------------------- JSON
\* a JSON value: its type t, its text s (a string, the digits of a number, the
\* key of a member) and its items (the elements of an array, the members of
\* an object, the value of a member)
JVal(t, s, items) == [t |-> t, s |-> s, items |-> items]
JString(s) == JVal("string", s, <<>>)
JArray(items) == JVal("array", <<>>, items)
JObject(members) == JVal("object", <<>>, members)
JMember(key, v) == JVal("member", key, <<v>>)
JNull == JVal("null", <<>>, <<>>)
\* obj[key]: the value of the last member of that key, undefined without one
HasKey(obj, key) ==
  obj.t = "object" /\ \E k \in 1..Len(obj.items) : obj.items[k].s = key
ValueOf(obj, key) ==
  obj.items[CHOOSE k \in 1..Len(obj.items) :
              /\ obj.items[k].s = key
              /\ \A j \in (k + 1)..Len(obj.items) : obj.items[j].s # key].items[1]

\* JSON.parse, for texts whose strings carry no escape and whose numbers are
\* natural numbers: a value and the position after it, or a failure
SkipWs(s, i) == i + (Len(Slice(s, i, Len(s) + 1)) - Len(TrimStart(Slice(s, i, Len(s) + 1))))
At(s, i, c) == i <= Len(s) /\ s[i] = c
JFail == [ok |-> FALSE, val |-> JNull, pos |-> 0]
JOk(v, pos) == [ok |-> TRUE, val |-> v, pos |-> pos]
\* the string whose opening quote is at i
StringUpTo(s, i, j) ==
  IF \E h \in (i + 1)..(j - 1) : s[h] \in {"\n", "\t", "\\"}
  THEN JFail
  ELSE JOk(JString(Slice(s, i + 1, j)), j + 1)
ParseString(s, i) ==
  IF \E j \in (i + 1)..Len(s) : s[j] = "\""
  THEN StringUpTo(s, i, CHOOSE j \in (i + 1)..Len(s) :
                          s[j] = "\"" /\ \A h \in (i + 1)..(j - 1) : s[h] # "\"")
  ELSE JFail
\* the number whose digits are ds, at i
NumberAt(ds, i) ==
  IF Len(ds) > 1 /\ ds[1] = "0" THEN JFail
  ELSE JOk(JVal("number", ds, <<>>), i + Len(ds))
\* the closing bracket at j, after white space
Closed(s, j, bracket, empty) ==
  IF At(s, j, bracket) THEN JOk(empty, j + 1) ELSE JFail
RECURSIVE ParseValue(_, _)
RECURSIVE ParseItems(_, _, _)
RECURSIVE ParseMembers(_, _, _)
\* the value that starts at i
ValueAt(s, i) ==
  IF At(s, i, "{")
  THEN (IF Closed(s, SkipWs(s, i + 1), "}", JObject(<<>>)).ok
        THEN Closed(s, SkipWs(s, i + 1), "}", JObject(<<>>))
        ELSE ParseMembers(s, i + 1, <<>>))
  ELSE IF At(s, i, "[")
  THEN (IF Closed(s, SkipWs(s, i + 1), "]", JArray(<<>>)).ok
        THEN Closed(s, SkipWs(s, i + 1), "]", JArray(<<>>))
        ELSE ParseItems(s, i + 1, <<>>))
  ELSE IF At(s, i, "\"") THEN ParseString(s, i)
  ELSE IF i <= Len(s) /\ s[i] \in Digits
  THEN NumberAt(DigitRun(Slice(s, i, Len(s) + 1)), i)
  ELSE IF Slice(s, i, i + 4) = <<"n", "u", "l", "l">> THEN JOk(JNull, i + 4)
  ELSE IF Slice(s, i, i + 4) = <<"t", "r", "u", "e">>
  THEN JOk(JVal("true", <<>>, <<>>), i + 4)
  ELSE IF Slice(s, i, i + 5) = <<"f", "a", "l", "s", "e">>
  THEN JOk(JVal("false", <<>>, <<>>), i + 5)
  ELSE JFail
\* the value that starts at i, white space before it skipped
ParseValue(s, i0) == ValueAt(s, SkipWs(s, i0))
\* the elements of an array from i on, after the elements done
ItemsNext(s, j, items) ==
  IF At(s, j, ",") THEN ParseItems(s, j + 1, items)
  ELSE IF At(s, j, "]") THEN JOk(JArray(items), j + 1)
  ELSE JFail
ItemsAfter(s, v, done) ==
  IF ~v.ok THEN JFail ELSE ItemsNext(s, SkipWs(s, v.pos), Append(done, v.val))
ParseItems(s, i, done) == ItemsAfter(s, ParseValue(s, i), done)
\* the members of an object from i on, after the members done
MembersNext(s, j, members) ==
  IF At(s, j, ",") THEN ParseMembers(s, j + 1, members)
  ELSE IF At(s, j, "}") THEN JOk(JObject(members), j + 1)
  ELSE JFail
MemberValue(s, key, v, done) ==
  IF ~v.ok THEN JFail
  ELSE MembersNext(s, SkipWs(s, v.pos), Append(done, JMember(key.val.s, v.val)))
MemberColon(s, key, c, done) ==
  MemberValue(s, key, IF key.ok /\ At(s, c, ":") THEN ParseValue(s, c + 1) ELSE JFail,
              done)
MemberKey(s, key, done) == MemberColon(s, key, SkipWs(s, key.pos), done)
MembersAt(s, i, done) ==
  MemberKey(s, IF At(s, i, "\"") THEN ParseString(s, i) ELSE JFail, done)
ParseMembers(s, i0, done) == MembersAt(s, SkipWs(s, i0), done)
\* JSON.parse(text): the value, or a SyntaxError
Whole(text, v) ==
  IF v.ok /\ SkipWs(text, v.pos) = Len(text) + 1 THEN v ELSE JFail
JsonParse(text) == Whole(text, ParseValue(text, 1))

\* the pattern of extractJsonLd, with the g and i flags
JsonLdScript ==
  Cat(<<Lit(<<"<", "s", "c", "r", "i", "p", "t">>), Star(NotChr({">"})),
    Lit(<<"t", "y", "p", "e", "=">>), Chr({"\"", "'"}), Lit(<<"a", "p", "p",
    "l", "i", "c", "a", "t", "i", "o", "n", "/", "l", "d", "+", "j", "s",
    "o", "n">>), Chr({"\"", "'"}), Star(NotChr({">"})), Chr({">"}), Grp(1,
    LazyStar(AllChar)), Lit(<<"<", "/", "s", "c", "r", "i", "p", "t",
    ">">>)>>)

\* what one ld+json block adds to scripts: the elements of an array, the
\* value itself otherwise; nothing when JSON.parse throws, and nothing for
\* null, on which reading json['@type'] throws inside the try
BlockRecords(parsed) ==
  IF ~parsed.ok \/ parsed.val.t = "null" THEN <<>>
  ELSE IF parsed.val.t = "array" THEN parsed.val.items
  ELSE <<parsed.val>>
\* where the scan goes on after a block
NextIndexEnding(html, m, parsed) == IF parsed.ok THEN m.end ELSE Len(html) + 2
\* the catch is inside the loop: regex.exec goes on from the end of the match
\* whether the block parsed or not
NextIndex(html, m, parsed) == m.end
\* the while loop of extractJsonLd from lastIndex on
RECURSIVE ScanScripts(_, _, _)
ScanNext(html, m, parsed, scripts) ==
  ScanScripts(html, NextIndex(html, m, parsed), scripts \o BlockRecords(parsed))
ScanFrom(html, m, scripts) ==
  IF ~m.found THEN scripts
  ELSE ScanNext(html, m, JsonParse(Group(m, html, 1)), scripts)
ScanScripts(html, lastIndex, scripts) ==
  ScanFrom(html, ExecFrom(JsonLdScript, html, lastIndex, TRUE), scripts)
extractJsonLd(html) == ScanScripts(html, 1, <<>>)

\* isType(item, typeName): item['@type'] is typeName or ends with ':' or '/'
\* and typeName, or is an array with such a string
TypeMatches(t, typeName) ==
  \/ t = typeName
  \/ endsWith(t, <<":">> \o typeName)
  \/ endsWith(t, <<"/">> \o typeName)
AtType == <<"@", "t", "y", "p", "e">>
AtGraph == <<"@", "g", "r", "a", "p", "h">>
\* !value: undefined, null, false, 0 and the empty string are falsy
Truthy(obj, key) ==
  /\ HasKey(obj, key)
  /\ ValueOf(obj, key).t \notin {"null", "false"}
  /\ ~(ValueOf(obj, key).t = "string" /\ ValueOf(obj, key).s = <<>>)
  /\ ~(ValueOf(obj, key).t = "number" /\ ValueOf(obj, key).s = <<"0">>)
isType(item, typeName) ==
  IF ~Truthy(item, AtType) THEN FALSE
  ELSE LET type == ValueOf(item, AtType)
       IN IF type.t = "array"
          THEN \E k \in 1..Len(type.items) : TypeMatches(type.items[k].s, typeName)
          ELSE TypeMatches(type.s, typeName)

NotFound == [found |-> FALSE, item |-> JNull]
Recipe == <<"R", "e", "c", "i", "p", "e">>
\* the recipes among the records are looked for before any @graph is entered
RECURSIVE findRecipeSchemaSiblingsFirst(_)
findRecipeSchemaSiblingsFirst(jsonLdList) ==
  LET direct == SelectSeq(jsonLdList, LAMBDA item : isType(item, Recipe))
      graphs == SelectSeq(jsonLdList, LAMBDA item : Truthy(item, AtGraph))
      inside == [k \in 1..Len(graphs) |->
                   findRecipeSchemaSiblingsFirst(ValueOf(graphs[k], AtGraph).items)]
      found == SelectSeq(inside, LAMBDA r : r.found)
  IN IF direct # <<>> THEN [found |-> TRUE, item |-> direct[1]]
     ELSE IF found # <<>> THEN found[1]
     ELSE NotFound
\* findRecipeSchema: null, or the record found
RECURSIVE findRecipeSchema(_)
findRecipeSchema(jsonLdList) ==
  IF jsonLdList = <<>> THEN NotFound
  ELSE LET item == Head(jsonLdList)
           inside == IF Truthy(item, AtGraph)
                     THEN findRecipeSchema(ValueOf(item, AtGraph).items)
                     ELSE NotFound
       IN IF isType(item, Recipe) THEN [found |-> TRUE, item |-> item]
          ELSE IF inside.found THEN inside
          ELSE findRecipeSchema(Tail(jsonLdList))

\* the pieces a page is put together from: markup, a script that is no
\* ld+json block, and ld+json blocks holding an object, an array, a wrapper
\* with @graph and texts that are not JSON; with each piece the records the
\* block holds
Pieces ==
  <<[kind |-> "markup",
     text |->
       <<"<", "p", ">", "H", "e", "l", "l", "o", "<", "/", "p", ">">>,
     records |->
       <<>>],
    [kind |-> "script",
     text |->
       <<"<", "s", "c", "r", "i", "p", "t", " ", "t", "y", "p", "e", "=",
         "\"", "t", "e", "x", "t", "/", "j", "a", "v", "a", "s", "c", "r",
         "i", "p", "t", "\"", ">", "v", "a", "r", " ", "a", " ", "=", " ",
         "[", "1", "]", ";", "<", "/", "s", "c", "r", "i", "p", "t", ">">>,
     records |->
       <<>>],
    [kind |-> "object",
     text |->
       <<"<", "s", "c", "r", "i", "p", "t", " ", "t", "y", "p", "e", "=",
         "\"", "a", "p", "p", "l", "i", "c", "a", "t", "i", "o", "n", "/",
         "l", "d", "+", "j", "s", "o", "n", "\"", ">", "\n", " ", "{", "\"",
         "@", "t", "y", "p", "e", "\"", ":", " ", "\"", "R", "e", "c", "i",
         "p", "e", "\"", ",", " ", "\"", "n", "a", "m", "e", "\"", ":", " ",
         "\"", "T", "\"", "}", "\n", "<", "/", "s", "c", "r", "i", "p", "t",
         ">">>,
     records |->
       <<JObject(<<JMember(<<"@", "t", "y", "p", "e">>, JString(<<"R", "e",
         "c", "i", "p", "e">>)), JMember(<<"n", "a", "m", "e">>,
         JString(<<"T">>))>>)>>],
    [kind |-> "array",
     text |->
       <<"<", "s", "c", "r", "i", "p", "t", " ", "i", "d", "=", "\"", "x",
         "\"", " ", "t", "y", "p", "e", "=", "'", "a", "p", "p", "l", "i",
         "c", "a", "t", "i", "o", "n", "/", "l", "d", "+", "j", "s", "o",
         "n", "'", ">", "[", "{", "\"", "@", "t", "y", "p", "e", "\"", ":",
         " ", "\"", "A", "\"", "}", ",", " ", "{", "\"", "@", "t", "y", "p",
         "e", "\"", ":", " ", "[", "\"", "B", "\"", ",", " ", "\"", "R", "e",
         "c", "i", "p", "e", "\"", "]", "}", "]", "<", "/", "s", "c", "r",
         "i", "p", "t", ">">>,
     records |->
       <<JObject(<<JMember(<<"@", "t", "y", "p", "e">>, JString(<<"A">>))>>),
         JObject(<<JMember(<<"@", "t", "y", "p", "e">>,
         JArray(<<JString(<<"B">>), JString(<<"R", "e", "c", "i", "p",
         "e">>)>>))>>)>>],
    [kind |-> "graph",
     text |->
       <<"<", "S", "C", "R", "I", "P", "T", " ", "T", "Y", "P", "E", "=",
         "\"", "a", "p", "p", "l", "i", "c", "a", "t", "i", "o", "n", "/",
         "l", "d", "+", "j", "s", "o", "n", "\"", " ", "a", "s", "y", "n",
         "c", ">", "{", "\"", "@", "g", "r", "a", "p", "h", "\"", ":", " ",
         "[", "{", "\"", "@", "t", "y", "p", "e", "\"", ":", " ", "\"", "R",
         "e", "c", "i", "p", "e", "\"", "}", "]", "}", "<", "/", "S", "C",
         "R", "I", "P", "T", ">">>,
     records |->
       <<JObject(<<JMember(<<"@", "g", "r", "a", "p", "h">>,
         JArray(<<JObject(<<JMember(<<"@", "t", "y", "p", "e">>,
         JString(<<"R", "e", "c", "i", "p", "e">>))>>)>>))>>)>>],
    [kind |-> "invalid",
     text |->
       <<"<", "s", "c", "r", "i", "p", "t", " ", "t", "y", "p", "e", "=",
         "\"", "a", "p", "p", "l", "i", "c", "a", "t", "i", "o", "n", "/",
         "l", "d", "+", "j", "s", "o", "n", "\"", ">", "{", "i", "n", "v",
         "a", "l", "i", "d", " ", "j", "s", "o", "n", "}", "<", "/", "s",
         "c", "r", "i", "p", "t", ">">>,
     records |->
       <<>>],
    [kind |-> "invalid",
     text |->
       <<"<", "s", "c", "r", "i", "p", "t", " ", "t", "y", "p", "e", "=",
         "\"", "a", "p", "p", "l", "i", "c", "a", "t", "i", "o", "n", "/",
         "l", "d", "+", "j", "s", "o", "n", "\"", ">", "{", "\"", "@", "t",
         "y", "p", "e", "\"", ":", " ", "\"", "R", "e", "c", "i", "p", "e",
         "\"", ",", "}", "<", "/", "s", "c", "r", "i", "p", "t", ">">>,
     records |->
       <<>>],
    [kind |-> "array",
     text |->
       <<"<", "s", "c", "r", "i", "p", "t", " ", "t", "y", "p", "e", "=",
         "\"", "a", "p", "p", "l", "i", "c", "a", "t", "i", "o", "n", "/",
         "l", "d", "+", "j", "s", "o", "n", "\"", ">", "[", "]", "<", "/",
         "s", "c", "r", "i", "p", "t", ">">>,
     records |->
       <<>>]>>

\* the texts of a list put one after the other
RECURSIVE Flatten(_)
Flatten(texts) ==
  IF texts = <<>> THEN <<>> ELSE Head(texts) \o Flatten(Tail(texts))

\* the pages extractJsonLd is called with: at most MaxBlocks pieces
MaxBlocks == 2
PageOf(ps) == [blocks |-> ps, html |-> Flatten([k \in 1..Len(ps) |-> Pieces[ps[k]].text])]
Pages == {PageOf(ps) : ps \in UNION {[1..n -> 1..Len(Pieces)] : n \in 0..MaxBlocks}}

\* the lists findRecipeSchema is called with: the lists of records with
\* MaxRecords records in all, those inside an @graph counted, of any shape
MaxRecords == 3
RecordTypes ==
  {<<>>,
   <<JMember(AtType, JString(<<"A", "r", "t", "i", "c", "l", "e">>))>>,
   <<JMember(AtType, JString(Recipe))>>,
   <<JMember(AtType, JArray(<<JString(<<"T", "h", "i", "n", "g">>),
                               JString(<<"s", "c", "h", "e", "m", "a", ":">> \o Recipe)>>))>>}
RECURSIVE RecordLists(_)
RecordLists(n) ==
  IF n = 0 THEN {<<>>}
  ELSE UNION {{<<JObject(type \o (IF k = 0 THEN <<>>
                                   ELSE <<JMember(AtGraph, JArray(graph))>>))>>
                 \o rest :
                 type \in RecordTypes,
                 graph \in RecordLists(k),
                 rest \in RecordLists(n - 1 - k)} : k \in 0..(n - 1)}
\* further records: types that are a URL, that only end like Recipe, that are
\* empty, an empty @graph, a recipe three levels down
OtherRecordLists ==
  {<<JObject(<<JMember(AtType, JString(<<"h", "t", "t", "p", "s", ":", "/", "/", "s", "c",
                                         "h", "e", "m", "a", ".", "o", "r", "g", "/">> \o Recipe))>>)>>,
   <<JObject(<<JMember(AtType, JString(<<"M", "y">> \o Recipe))>>)>>,
   <<JObject(<<JMember(AtType, JString(<<>>)), JMember(AtGraph, JArray(<<>>))>>),
     JObject(<<JMember(AtType, JString(Recipe))>>)>>,
   <<JObject(<<JMember(AtType, JArray(<<>>))>>)>>,
   <<JObject(<<JMember(AtGraph, JArray(<<
       JObject(<<JMember(AtGraph, JArray(<<
         JObject(<<JMember(AtGraph, JArray(<<
           JObject(<<JMember(AtType, JString(Recipe))>>)>>))>>)>>))>>)>>))>>),
     JObject(<<JMember(AtType, JString(<<"x", "/">> \o Recipe))>>)>>}
JsonLdLists ==
  UNION {RecordLists(n) : n \in 0..MaxRecords} \cup OtherRecordLists

\* the calls of the parser's functions
ParseCalls ==
  [fn : {"normalizeUnit"}, arg : UnitKeyTexts \cup OtherUnitTexts]
    \cup [fn : {"parseQuantity"}, arg : QuantityTexts]
    \cup [fn : {"parseIngredientString"},
          arg : TestedIngredientTexts \cup KeyIngredientTexts
                  \cup OtherIngredientTexts \cup ComposedIngredientTexts]
    \cup [fn : {"parseDuration"},
          arg : {Undefined} \cup {Text(s) : s \in DurationTexts}]
    \cup [fn : {"extractJsonLd"}, arg : Pages]
    \cup [fn : {"findRecipeSchema"}, arg : JsonLdLists]

InitParse ==
  /\ InitPage
  /\ \E c \in ParseCalls :
       task = [fn |-> c.fn, arg |-> c.arg, pc |-> "called", result |-> <<>>]

ReturnNormalizeUnit ==
  /\ task.fn = "normalizeUnit" /\ task.pc = "called"
  /\ task' = [task EXCEPT !.pc = "returned", !.result = normalizeUnit(task.arg)]
  /\ PageFrame
ReturnParseQuantity ==
  /\ task.fn = "parseQuantity" /\ task.pc = "called"
  /\ task' = [task EXCEPT !.pc = "returned", !.result = parseQuantity(task.arg)]
  /\ PageFrame
ReturnParseIngredientString ==
  /\ task.fn = "parseIngredientString" /\ task.pc = "called"
  /\ task' = [task EXCEPT !.pc = "returned",
                          !.result = parseIngredientString(task.arg)]
  /\ PageFrame
ReturnParseDuration ==
  /\ task.fn = "parseDuration" /\ task.pc = "called"
  /\ task' = [task EXCEPT !.pc = "returned", !.result = parseDuration(task.arg)]
  /\ PageFrame
ReturnExtractJsonLd ==
  /\ task.fn = "extractJsonLd" /\ task.pc = "called"
  /\ task' = [task EXCEPT !.pc = "returned",
                          !.result = extractJsonLd(task.arg.html)]
  /\ PageFrame
ReturnFindRecipeSchema ==
  /\ task.fn = "findRecipeSchema" /\ task.pc = "called"
  /\ task' = [task EXCEPT !.pc = "returned",
                          !.result = findRecipeSchema(task.arg)]
  /\ PageFrame

NextParse ==
  \/ ReturnNormalizeUnit
  \/ ReturnParseQuantity
  \/ ReturnParseIngredientString
  \/ ReturnParseDuration
  \/ ReturnExtractJsonLd
  \/ ReturnFindRecipeSchema
SpecParse == InitParse /\ [][NextParse]_vars

Returned(fn) == task.fn = fn /\ task.pc = "returned"

\* ------------------------------------------------------------------- C22
\* C22: normalizeUnit returns, for a unit that is a key of the unit table in
\* any letter case, the value the table gives for the key, and for any other
\* text the text itself
C22_TableValueOrUnchanged ==
  Returned("normalizeUnit") =>
    LET row == Lookup(unitMap, "key", "value", toLowerCase(task.arg))
    IN task.result = IF row.found THEN row.value ELSE task.arg

\* ------------------------------------------------------------------- C23
\* C23: for every key k of the unit table, parseIngredientString of
\* '2 ' + k + ' x' gives the quantity 2, the unit normalizeUnit(k) and the
\* name 'x'
C23_EveryKeyIsMatchedAsUnit ==
  \A k \in 1..Len(unitMap) :
    (/\ Returned("parseIngredientString")
     /\ task.arg = <<"2", " ">> \o unitMap[k].key \o <<" ", "x">>)
      => /\ task.result.quantity = IntNum(2)
         /\ task.result.unit = normalizeUnit(unitMap[k].key)
         /\ task.result.name = <<"x">>

\* ------------------------------------------------------------------- C24
\* a decimal: digits, or digits, a point or a comma, and digits
C24_Decimal ==
  Cat(<<Bos, Grp(1, Plus(Digit)),
        Opt(Cat(<<Chr({".", ","}), Grp(2, Plus(Digit))>>)), Eos>>)
C24_DecimalValue(text) ==
  LET m == Exec(C24_Decimal, text, FALSE)
      frac == IF Took(m, 2) THEN Group(m, text, 2) ELSE <<>>
  IN Num(DigitsValue(Group(m, text, 1)) * Pow10(Len(frac)) + DigitsValue(frac),
         Pow10(Len(frac)))
\* C24: parseQuantity always returns a finite number that is not negative; a
\* decimal written with '.' or ',' gives its value, '1/2' gives 0.5, '1 1/2'
\* gives 1.5, '2,5' gives 2.5, and a text without any digit gives 1
C24_FiniteQuantity ==
  Returned("parseQuantity") =>
    /\ task.result.k = "num"
    /\ task.result.n >= 0 /\ task.result.d > 0
    /\ Exec(C24_Decimal, task.arg, FALSE).found
         => task.result = C24_DecimalValue(task.arg)
    /\ task.arg = <<"1", "/", "2">> => task.result = Num(1, 2)
    /\ task.arg = <<"1", " ", "1", "/", "2">> => task.result = Num(3, 2)
    /\ task.arg = <<"2", ",", "5">> => task.result = Num(5, 2)
    /\ (\A j \in 1..Len(task.arg) : task.arg[j] \notin Digits)
         => task.result = IntNum(1)

\* ------------------------------------------------------------------- C25
C25_Cleaned(text) ==
  ReplaceAll(Plus(Ws), trim(decodeHtmlEntities(text)), <<" ">>, FALSE)
C25_Ingredient(quantity, unit, name) ==
  [quantity |-> quantity, unit |-> unit, name |-> name]
\* C25: parseIngredientString works on the decoded, collapsed and trimmed
\* text; when the unit pattern matches it the result is its quantity, its
\* unit normalized and its name; otherwise, when the pattern without unit
\* matches, its quantity, the empty unit and its name; otherwise 1, the empty
\* unit and the whole text. The five texts of the tests give the results the
\* tests expect
C25_PatternsInOrder ==
  Returned("parseIngredientString") =>
    LET str == C25_Cleaned(task.arg)
        m1 == Exec(unitPattern, str, TRUE)
        m2 == Exec(noUnitPattern, str, FALSE)
    IN /\ m1.found =>
            task.result = C25_Ingredient(parseQuantity(Group(m1, str, 1)),
                                         normalizeUnit(Group(m1, str, 2)),
                                         trim(Group(m1, str, 3)))
       /\ (~m1.found /\ m2.found) =>
            task.result = C25_Ingredient(parseQuantity(Group(m2, str, 1)),
                                         <<>>, trim(Group(m2, str, 2)))
       /\ (~m1.found /\ ~m2.found) =>
            task.result = C25_Ingredient(IntNum(1), <<>>, str)
       /\ task.arg = <<"2", "0", "0", "g", " ", "d", "e", " ", "f", "a", "r",
           "i", "n", "e">>
            => task.result = C25_Ingredient(IntNum(200),
                  <<"g">>,
                  <<"f", "a", "r", "i", "n", "e">>)
       /\ task.arg = <<"2", " ", "c", "u", "p", "s", " ", "f", "l", "o", "u",
           "r">>
            => task.result = C25_Ingredient(IntNum(2),
                  <<"t", "a", "s", "s", "e", "s">>,
                  <<"f", "l", "o", "u", "r">>)
       /\ task.arg = <<"2", " ", "c", ".", " ", "à", " ", "s", ".", " ", "d",
           "e", " ", "s", "u", "c", "r", "e">>
            => task.result = C25_Ingredient(IntNum(2),
                  <<"c", ".", " ", "à", " ", "s", "o", "u", "p", "e">>,
                  <<"s", "u", "c", "r", "e">>)
       /\ task.arg = <<"1", "/", "2", " ", "c", "u", "p", " ", "m", "i", "l",
           "k">>
            => task.result = C25_Ingredient(Num(1, 2),
                  <<"t", "a", "s", "s", "e">>,
                  <<"m", "i", "l", "k">>)
       /\ task.arg = <<"s", "e", "l">>
            => task.result = C25_Ingredient(IntNum(1), <<>>, <<"s", "e", "l">>)
\* a text with an entity and runs of white space has been parsed with the
\* unit pattern, and a text without unit with the second pattern
C25_Witness ==
  /\ Returned("parseIngredientString")
  /\ task.arg = <<"2", " ", "c", ".", " ", "&", "a", "g", "r", "a", "v", "e",
      ";", " ", "s", ".", " ", "d", "e", " ", "s", "u", "c", "r", "e">>
  /\ task.result = C25_Ingredient(IntNum(2),
        <<"c", ".", " ", "à", " ", "s", "o", "u", "p", "e">>,
        <<"s", "u", "c", "r", "e">>)

\* ------------------------------------------------------------------- C28
\* a text of the form PT[<h>H][<m>M] and nothing else
C28_Form ==
  Cat(<<Bos, Lit(<<"P", "T">>), Opt(Cat(<<Grp(1, Plus(Digit)), Chr({"H"})>>)),
        Opt(Cat(<<Grp(2, Plus(Digit)), Chr({"M"})>>)), Eos>>)
C28_Minutes(text) ==
  LET m == Exec(C28_Form, text, FALSE)
  IN 60 * (IF Took(m, 1) THEN DigitsValue(Group(m, text, 1)) ELSE 0)
       + (IF Took(m, 2) THEN DigitsValue(Group(m, text, 2)) ELSE 0)
\* C28: parseDuration returns 60 * h + m for a text of the form
\* PT[<h>H][<m>M], and undefined for an undefined text, an empty text and
\* every text that is not of that form
C28_DurationOrUndefined ==
  Returned("parseDuration") =>
    IF task.arg.def /\ Exec(C28_Form, task.arg.text, FALSE).found
    THEN task.result = [def |-> TRUE, minutes |-> C28_Minutes(task.arg.text)]
    ELSE task.result = NoDuration

\* ------------------------------------------------------------------- C26
\* the records of the blocks of a page, block after block
C26_Expected(blocks) == Flatten([k \in 1..Len(blocks) |-> Pieces[blocks[k]].records])
\* C26: extractJsonLd returns the records of the ld+json blocks of the page
\* in document order, every element of a block that holds an array and the
\* object of a block that holds an object (a wrapper with @graph as one
\* record); a block that is not JSON adds nothing and the blocks after it
\* are still returned; a page without a block gives the empty list
C26_RecordsInDocumentOrder ==
  Returned("extractJsonLd") => task.result = C26_Expected(task.arg.blocks)
\* a page whose first block is not JSON and whose second block holds an
\* object has been scanned, and the object returned
C26_Witness ==
  /\ Returned("extractJsonLd")
  /\ Len(task.arg.blocks) = 2
  /\ Pieces[task.arg.blocks[1]].kind = "invalid"
  /\ Pieces[task.arg.blocks[2]].kind = "object"
  /\ Len(task.result) = 1 /\ isType(task.result[1], Recipe)

\* ------------------------------------------------------------------- C27
\* the records of a list in depth-first document order: a record, the records
\* of its @graph, then the records after it
RECURSIVE C27_DepthFirst(_)
C27_DepthFirst(list) ==
  IF list = <<>> THEN <<>>
  ELSE <<Head(list)>>
         \o (IF HasKey(Head(list), AtGraph)
             THEN C27_DepthFirst(ValueOf(Head(list), AtGraph).items) ELSE <<>>)
         \o C27_DepthFirst(Tail(list))
C27_RecipeType(t) ==
  t.t = "string" /\ \/ t.s = Recipe
                    \/ endsWith(t.s, <<":">> \o Recipe)
                    \/ endsWith(t.s, <<"/">> \o Recipe)
C27_IsRecipe(item) ==
  /\ HasKey(item, AtType)
  /\ \/ C27_RecipeType(ValueOf(item, AtType))
     \/ /\ ValueOf(item, AtType).t = "array"
        /\ \E k \in 1..Len(ValueOf(item, AtType).items) :
             C27_RecipeType(ValueOf(item, AtType).items[k])
\* C27: findRecipeSchema returns the first record in depth-first document
\* order whose @type is Recipe, ends with :Recipe or /Recipe, or is a list
\* with such a string, and null when there is none
C27_FirstRecipeDepthFirst ==
  Returned("findRecipeSchema") =>
    LET recipes == SelectSeq(C27_DepthFirst(task.arg), C27_IsRecipe)
    IN IF recipes = <<>> THEN ~task.result.found
       ELSE task.result.found /\ task.result.item = recipes[1]
\* the recipe inside the @graph of the first record has been returned, a
\* recipe of another type standing after that record
C27_Witness ==
  /\ Returned("findRecipeSchema")
  /\ Len(task.arg) = 2
  /\ ~C27_IsRecipe(task.arg[1]) /\ HasKey(task.arg[1], AtGraph)
  /\ C27_IsRecipe(task.arg[2])
  /\ task.result.found
  /\ task.result.item = ValueOf(task.arg[1], AtGraph).items[1]
  /\ task.result.item # task.arg[2]

\* ------------------------------------------------------- importing a recipe
\* the property names of a Recipe record
PropName == <<"n", "a", "m", "e">>
PropIngredient ==
  <<"r", "e", "c", "i", "p", "e", "I", "n", "g", "r", "e", "d", "i", "e", "n", "t">>
PropInstructions ==
  <<"r", "e", "c", "i", "p", "e", "I", "n", "s", "t", "r", "u", "c", "t", "i", "o",
    "n", "s">>
PropSteps == <<"r", "e", "c", "i", "p", "e", "S", "t", "e", "p", "s">>
PropPrepTime == <<"p", "r", "e", "p", "T", "i", "m", "e">>
PropCookTime == <<"c", "o", "o", "k", "T", "i", "m", "e">>
PropYield == <<"r", "e", "c", "i", "p", "e", "Y", "i", "e", "l", "d">>
PropImage == <<"i", "m", "a", "g", "e">>
PropUrl == <<"u", "r", "l">>
PropText == <<"t", "e", "x", "t">>
PropDescription == <<"d", "e", "s", "c", "r", "i", "p", "t", "i", "o", "n">>
PropItems ==
  <<"i", "t", "e", "m", "L", "i", "s", "t", "E", "l", "e", "m", "e", "n", "t">>
\* obj[key] as a text: the string, undefined when the property is absent
TextOf(obj, key) ==
  IF HasKey(obj, key) /\ ValueOf(obj, key).t = "string"
  THEN Text(ValueOf(obj, key).s) ELSE Undefined
\* a || b || ... for texts: the first that is defined and not empty
RECURSIVE FirstTruthy(_)
FirstTruthy(texts) ==
  IF texts = <<>> THEN <<>>
  ELSE IF Head(texts).def /\ Head(texts).text # <<>> THEN Head(texts).text
  ELSE FirstTruthy(Tail(texts))

\* variant: every 'http://' of an http URL is replaced
secureImageUrlAll(url) ==
  IF ~url.def \/ url.text = <<>> THEN url
  ELSE IF startsWith(url.text, <<"d", "a", "t", "a", ":">>) THEN url
  ELSE IF startsWith(url.text, <<"h", "t", "t", "p", ":", "/", "/">>)
  THEN Text(ReplaceAll(Lit(<<"h", "t", "t", "p", ":", "/", "/">>), url.text,
                       <<"h", "t", "t", "p", "s", ":", "/", "/">>, FALSE))
  ELSE url

\* secureImageUrl: a data URL and a URL that is not http stay, an http URL
\* gets its first 'http://' replaced
secureImageUrl(url) ==
  IF ~url.def \/ url.text = <<>> THEN url
  ELSE IF startsWith(url.text, <<"d", "a", "t", "a", ":">>) THEN url
  ELSE IF startsWith(url.text, <<"h", "t", "t", "p", ":", "/", "/">>)
  THEN Text(ReplaceFirst(Lit(<<"h", "t", "t", "p", ":", "/", "/">>), url.text,
                         <<"h", "t", "t", "p", "s", ":", "/", "/">>, FALSE))
  ELSE url

\* extractImageUrl: the first element of an array, the url of an object, the
\* string itself
extractImageUrl(schema) ==
  IF ~Truthy(schema, PropImage) THEN Undefined
  ELSE LET image == ValueOf(schema, PropImage)
       IN IF image.t = "array"
          THEN (IF image.items # <<>> /\ image.items[1].t = "string"
                THEN Text(image.items[1].s) ELSE Undefined)
          ELSE IF image.t = "object" /\ Truthy(image, PropUrl)
          THEN TextOf(image, PropUrl)
          ELSE IF image.t = "string" THEN Text(image.s)
          ELSE Undefined

\* parseServings: 4 without a yield, the number itself, else the first run of
\* digits of the text or of the first element of the array, 4 without digits;
\* the match is called on the first element of the array whatever it is, and
\* throws when that is no string
OneOrMoreDigits == Grp(1, Plus(Digit))
ServingsIn(first, m) ==
  IF first.t # "string" THEN [throws |-> TRUE, n |-> 0]
  ELSE IF m.found THEN [throws |-> FALSE, n |-> DigitsValue(Group(m, first.s, 1))]
  ELSE [throws |-> FALSE, n |-> 4]
ServingsOf(first) == ServingsIn(first, Exec(OneOrMoreDigits, first.s, FALSE))
YieldOf(y) ==
  IF y.t = "number" THEN [throws |-> FALSE, n |-> DigitsValue(y.s)]
  ELSE ServingsOf(IF y.t = "array" /\ y.items # <<>> THEN y.items[1] ELSE y)
parseServings(schema) ==
  IF ~Truthy(schema, PropYield) THEN [throws |-> FALSE, n |-> 4]
  ELSE YieldOf(ValueOf(schema, PropYield))

\* parseInstructions for a list of strings, steps, sections and objects with
\* a text, and for a single object with a text (the pages of the model carry
\* no instructions written as one string)
HowToStep == <<"H", "o", "w", "T", "o", "S", "t", "e", "p">>
HowToSection == <<"H", "o", "w", "T", "o", "S", "e", "c", "t", "i", "o", "n">>
\* the text of an item that is a string, a step or an object with a text
RawTexts(item) ==
  IF item.t = "string" THEN <<item.s>>
  ELSE IF isType(item, HowToStep)
  THEN <<FirstTruthy(<<TextOf(item, PropText), TextOf(item, PropDescription),
                       TextOf(item, PropName)>>)>>
  ELSE IF Truthy(item, PropText) THEN <<TextOf(item, PropText).text>>
  ELSE <<>>
IsSection(item) ==
  item.t # "string" /\ ~isType(item, HowToStep) /\ isType(item, HowToSection)
DecodeEach(texts) == [k \in 1..Len(texts) |-> decodeHtmlEntities(texts[k])]
RECURSIVE parseInstructions(_)
RECURSIVE InstructionTexts(_)
InstructionTexts(items) ==
  IF items = <<>> THEN <<>>
  ELSE (IF IsSection(Head(items))
        THEN (IF HasKey(Head(items), PropItems)
              THEN parseInstructions(ValueOf(Head(items), PropItems)) ELSE <<>>)
        ELSE DecodeEach(RawTexts(Head(items))))
         \o InstructionTexts(Tail(items))
parseInstructions(instructions) ==
  IF instructions.t = "array"
  THEN SelectSeq(InstructionTexts(instructions.items), LAMBDA s : trim(s) # <<>>)
  ELSE IF instructions.t = "object" /\ Truthy(instructions, PropText)
  THEN DecodeEach(<<TextOf(instructions, PropText).text>>)
  ELSE <<>>

\* parseRecipeFromHtml: null without a Recipe record, else the recipe; a
\* TypeError when parseServings throws
NoTitle ==
  <<"R", "e", "c", "e", "t", "t", "e", " ", "s", "a", "n", "s", " ", "t", "i", "t",
    "r", "e">>
TitleOr(title) == IF title # <<>> THEN title ELSE NoTitle
IngredientsOf(schema) ==
  IF Truthy(schema, PropIngredient)
  THEN [k \in 1..Len(ValueOf(schema, PropIngredient).items) |->
          parseIngredientString(ValueOf(schema, PropIngredient).items[k].s)]
  ELSE <<>>
InstructionsOf(schema) ==
  IF Truthy(schema, PropInstructions) THEN ValueOf(schema, PropInstructions)
  ELSE IF Truthy(schema, PropSteps) THEN ValueOf(schema, PropSteps)
  ELSE JNull
RecipeOf(schema, servings) ==
  IF servings.throws THEN [kind |-> "TypeError"]
  ELSE [kind |-> "recipe",
        title |-> TitleOr(decodeHtmlEntities(FirstTruthy(<<TextOf(schema, PropName)>>))),
        prepTime |-> parseDuration(TextOf(schema, PropPrepTime)),
        cookTime |-> parseDuration(TextOf(schema, PropCookTime)),
        servings |-> servings.n,
        ingredients |-> IngredientsOf(schema),
        steps |-> parseInstructions(InstructionsOf(schema)),
        image |-> extractImageUrl(schema)]
SchemaRecipe(found) ==
  IF ~found.found THEN [kind |-> "null"]
  ELSE RecipeOf(found.item, parseServings(found.item))
parseRecipeFromHtml(html) == SchemaRecipe(findRecipeSchema(extractJsonLd(html)))

\* the pages an import can receive, and of each whether it holds a Recipe
\* record and the image URL of that record
ImportPages ==
  <<[html |->
       <<"<", "h", "t", "m", "l", ">", "<", "p", ">", "H", "e", "l", "l",
         "o", "<", "/", "p", ">", "<", "/", "h", "t", "m", "l", ">">>,
     recipe |-> FALSE,
     image |-> Undefined],
    [html |->
       <<"<", "h", "t", "m", "l", ">", "<", "s", "c", "r", "i", "p", "t",
         " ", "t", "y", "p", "e", "=", "\"", "a", "p", "p", "l", "i", "c",
         "a", "t", "i", "o", "n", "/", "l", "d", "+", "j", "s", "o", "n",
         "\"", ">", "{", "\"", "@", "t", "y", "p", "e", "\"", ":", " ", "\"",
         "A", "r", "t", "i", "c", "l", "e", "\"", ",", " ", "\"", "i", "m",
         "a", "g", "e", "\"", ":", " ", "\"", "h", "t", "t", "p", ":", "/",
         "/", "x", "/", "a", ".", "j", "p", "g", "\"", "}", "<", "/", "s",
         "c", "r", "i", "p", "t", ">", "<", "/", "h", "t", "m", "l", ">">>,
     recipe |-> FALSE,
     image |-> Undefined],
    [html |->
       <<"<", "h", "t", "m", "l", ">", "<", "s", "c", "r", "i", "p", "t",
         " ", "t", "y", "p", "e", "=", "\"", "a", "p", "p", "l", "i", "c",
         "a", "t", "i", "o", "n", "/", "l", "d", "+", "j", "s", "o", "n",
         "\"", ">", "{", "o", "o", "p", "s", "<", "/", "s", "c", "r", "i",
         "p", "t", ">", "<", "/", "h", "t", "m", "l", ">">>,
     recipe |-> FALSE,
     image |-> Undefined],
    [html |->
       <<"<", "h", "t", "m", "l", ">", "<", "s", "c", "r", "i", "p", "t",
         " ", "t", "y", "p", "e", "=", "\"", "a", "p", "p", "l", "i", "c",
         "a", "t", "i", "o", "n", "/", "l", "d", "+", "j", "s", "o", "n",
         "\"", ">", "{", "\"", "@", "t", "y", "p", "e", "\"", ":", " ", "\"",
         "R", "e", "c", "i", "p", "e", "\"", ",", " ", "\"", "n", "a", "m",
         "e", "\"", ":", " ", "\"", "T", "&", "e", "a", "c", "u", "t", "e",
         ";", "\"", ",", " ", "\"", "r", "e", "c", "i", "p", "e", "I", "n",
         "g", "r", "e", "d", "i", "e", "n", "t", "\"", ":", " ", "[", "\"",
         "2", " ", "c", "u", "p", "s", " ", "f", "l", "o", "u", "r", "\"",
         "]", ",", " ", "\"", "p", "r", "e", "p", "T", "i", "m", "e", "\"",
         ":", " ", "\"", "P", "T", "1", "H", "5", "M", "\"", ",", " ", "\"",
         "r", "e", "c", "i", "p", "e", "Y", "i", "e", "l", "d", "\"", ":",
         " ", "\"", "6", " ", "p", "a", "r", "t", "s", "\"", "}", "<", "/",
         "s", "c", "r", "i", "p", "t", ">", "<", "/", "h", "t", "m", "l",
         ">">>,
     recipe |-> TRUE,
     image |-> Undefined],
    [html |->
       <<"<", "h", "t", "m", "l", ">", "<", "s", "c", "r", "i", "p", "t",
         " ", "t", "y", "p", "e", "=", "\"", "a", "p", "p", "l", "i", "c",
         "a", "t", "i", "o", "n", "/", "l", "d", "+", "j", "s", "o", "n",
         "\"", ">", "{", "\"", "@", "t", "y", "p", "e", "\"", ":", " ", "\"",
         "R", "e", "c", "i", "p", "e", "\"", ",", " ", "\"", "n", "a", "m",
         "e", "\"", ":", " ", "\"", "A", "\"", ",", " ", "\"", "i", "m", "a",
         "g", "e", "\"", ":", " ", "\"", "h", "t", "t", "p", ":", "/", "/",
         "x", "/", "i", ".", "j", "p", "g", "\"", "}", "<", "/", "s", "c",
         "r", "i", "p", "t", ">", "<", "/", "h", "t", "m", "l", ">">>,
     recipe |-> TRUE,
     image |-> Text(<<"h", "t", "t", "p", ":", "/", "/", "x", "/", "i", ".", "j",
              "p", "g">>)],
    [html |->
       <<"<", "h", "t", "m", "l", ">", "<", "s", "c", "r", "i", "p", "t",
         " ", "t", "y", "p", "e", "=", "\"", "a", "p", "p", "l", "i", "c",
         "a", "t", "i", "o", "n", "/", "l", "d", "+", "j", "s", "o", "n",
         "\"", ">", "{", "\"", "@", "g", "r", "a", "p", "h", "\"", ":", " ",
         "[", "{", "\"", "@", "t", "y", "p", "e", "\"", ":", " ", "\"", "R",
         "e", "c", "i", "p", "e", "\"", ",", " ", "\"", "i", "m", "a", "g",
         "e", "\"", ":", " ", "[", "\"", "h", "t", "t", "p", "s", ":", "/",
         "/", "x", "/", "i", ".", "j", "p", "g", "\"", ",", " ", "\"", "h",
         "t", "t", "p", ":", "/", "/", "x", "/", "j", ".", "j", "p", "g",
         "\"", "]", ",", " ", "\"", "r", "e", "c", "i", "p", "e", "I", "n",
         "s", "t", "r", "u", "c", "t", "i", "o", "n", "s", "\"", ":", " ",
         "[", "\"", "M", "i", "x", "\"", ",", " ", "{", "\"", "@", "t", "y",
         "p", "e", "\"", ":", " ", "\"", "H", "o", "w", "T", "o", "S", "t",
         "e", "p", "\"", ",", " ", "\"", "t", "e", "x", "t", "\"", ":", " ",
         "\"", "B", "a", "k", "e", "\"", "}", "]", "}", "]", "}", "<", "/",
         "s", "c", "r", "i", "p", "t", ">", "<", "/", "h", "t", "m", "l",
         ">">>,
     recipe |-> TRUE,
     image |-> Text(<<"h", "t", "t", "p", "s", ":", "/", "/", "x", "/", "i", ".",
              "j", "p", "g">>)],
    [html |->
       <<"<", "h", "t", "m", "l", ">", "<", "s", "c", "r", "i", "p", "t",
         " ", "t", "y", "p", "e", "=", "\"", "a", "p", "p", "l", "i", "c",
         "a", "t", "i", "o", "n", "/", "l", "d", "+", "j", "s", "o", "n",
         "\"", ">", "[", "{", "\"", "@", "t", "y", "p", "e", "\"", ":", " ",
         "\"", "W", "e", "b", "S", "i", "t", "e", "\"", "}", ",", " ", "{",
         "\"", "@", "t", "y", "p", "e", "\"", ":", " ", "\"", "R", "e", "c",
         "i", "p", "e", "\"", ",", " ", "\"", "i", "m", "a", "g", "e", "\"",
         ":", " ", "{", "\"", "u", "r", "l", "\"", ":", " ", "\"", "h", "t",
         "t", "p", ":", "/", "/", "x", "/", "h", "t", "t", "p", ":", "/",
         "/", "y", "\"", "}", ",", " ", "\"", "r", "e", "c", "i", "p", "e",
         "Y", "i", "e", "l", "d", "\"", ":", " ", "2", "}", "]", "<", "/",
         "s", "c", "r", "i", "p", "t", ">", "<", "/", "h", "t", "m", "l",
         ">">>,
     recipe |-> TRUE,
     image |-> Text(<<"h", "t", "t", "p", ":", "/", "/", "x", "/", "h", "t", "t",
              "p", ":", "/", "/", "y">>)],
    [html |->
       <<"<", "h", "t", "m", "l", ">", "<", "s", "c", "r", "i", "p", "t",
         " ", "t", "y", "p", "e", "=", "\"", "a", "p", "p", "l", "i", "c",
         "a", "t", "i", "o", "n", "/", "l", "d", "+", "j", "s", "o", "n",
         "\"", ">", "{", "\"", "@", "t", "y", "p", "e", "\"", ":", " ", "\"",
         "R", "e", "c", "i", "p", "e", "\"", ",", " ", "\"", "i", "m", "a",
         "g", "e", "\"", ":", " ", "\"", "d", "a", "t", "a", ":", "i", "m",
         "a", "g", "e", "/", "p", "n", "g", ";", "b", "a", "s", "e", "6",
         "4", ",", "A", "A", "\"", ",", " ", "\"", "r", "e", "c", "i", "p",
         "e", "Y", "i", "e", "l", "d", "\"", ":", " ", "[", "\"", "8", "\"",
         "]", "}", "<", "/", "s", "c", "r", "i", "p", "t", ">", "<", "/",
         "h", "t", "m", "l", ">">>,
     recipe |-> TRUE,
     image |-> Text(<<"d", "a", "t", "a", ":", "i", "m", "a", "g", "e", "/", "p",
              "n", "g", ";", "b", "a", "s", "e", "6", "4", ",", "A", "A">>)],
    [html |->
       <<"<", "h", "t", "m", "l", ">", "<", "s", "c", "r", "i", "p", "t",
         " ", "t", "y", "p", "e", "=", "\"", "a", "p", "p", "l", "i", "c",
         "a", "t", "i", "o", "n", "/", "l", "d", "+", "j", "s", "o", "n",
         "\"", ">", "{", "\"", "@", "t", "y", "p", "e", "\"", ":", " ", "\"",
         "R", "e", "c", "i", "p", "e", "\"", ",", " ", "\"", "i", "m", "a",
         "g", "e", "\"", ":", " ", "\"", "\"", ",", " ", "\"", "r", "e", "c",
         "i", "p", "e", "Y", "i", "e", "l", "d", "\"", ":", " ", "[", "]",
         "}", "<", "/", "s", "c", "r", "i", "p", "t", ">", "<", "/", "h",
         "t", "m", "l", ">">>,
     recipe |-> TRUE,
     image |-> Undefined]>>

\* CORS_PROXIES.length
ProxyCount == 4
\* what a relay endpoint can do with a request: answer with a success status,
\* answer with another status, fail, or not answer within the timeout
ProxyAnswers == {"ok", "status", "network", "timeout"}
\* what reading the body of a response can do
BodyAnswers == {"delivered", "failed"}
\* what the download of the image can do: a data URL read from an image, a
\* status that is no success, a body that is no image, a failed request, a
\* failed read
ImageAnswers == {"base64", "status", "notimage", "network", "reader"}
Base64Image == Text(<<"d", "a", "t", "a", ":", "i", "m", "g">>)
\* the progress stages
StageLoad == "Chargement de la page..."
StageParse == "Analyse de la recette..."
StageImage == "Téléchargement de l'image..."
StageDone == "Terminé !"

NoError == [kind |-> "none", from |-> 0]
\* the error of endpoint i: Error('HTTP <status>') for a status, the error
\* fetch or arrayBuffer rejected with otherwise
ImportError(answer, i) == [kind |-> answer, from |-> i]
ImportPending == [state |-> "pending", error |-> NoError]
Rejected(e) == [state |-> "rejected", error |-> e]
Resolved == [state |-> "resolved", error |-> NoError]

Importing(pc) == task.fn = "fetchAndParseRecipe" /\ task.pc = pc

\* fetchAndParseRecipe is called: the first stage, then fetchHtmlWithProxy
\* sends the request to the first endpoint
ImportCall ==
  /\ Importing("start")
  /\ task' = [task EXCEPT !.pc = "fetch", !.stages = <<StageLoad>>,
                          !.proxy = 1, !.contacts = <<1>>]
  /\ PageFrame

\* lastError after endpoint i failed with e, when an error is kept already
LastErrorKeepFirst(last, e) == IF last = NoError THEN e ELSE last
\* lastError is overwritten by every endpoint that fails
LastError(last, e) == e
\* the catch and the else branch of the loop: the error is kept and the next
\* endpoint contacted, or lastError thrown after the last one
ProxyFailed(t, answer) ==
  LET e == LastError(t.lastError, ImportError(answer, t.proxy))
  IN IF t.proxy < ProxyCount
     THEN [t EXCEPT !.pc = "fetch", !.lastError = e,
                    !.answers = Append(@, answer),
                    !.proxy = @ + 1, !.contacts = Append(@, t.proxy + 1)]
     ELSE [t EXCEPT !.pc = "settled", !.lastError = e,
                    !.answers = Append(@, answer),
                    !.outcome = Rejected(e)]

\* the endpoint answers the request, or the timeout aborts it
ProxyAnswer ==
  /\ Importing("fetch")
  /\ \E answer \in ProxyAnswers :
       task' = IF answer = "ok" THEN [task EXCEPT !.pc = "body"]
               ELSE ProxyFailed(task, answer)
  /\ PageFrame

\* what follows a failed download of the image
ImageFailureFails(t) == [t EXCEPT !.pc = "settled",
                                  !.outcome = Rejected(ImportError("image", 0))]
\* fetchImageAsBase64 returns undefined: the URL is kept, upgraded to https,
\* and the call goes on
ImageFailure(t) ==
  [t EXCEPT !.pc = "settled", !.recipe.image = secureImageUrl(@),
            !.stages = Append(@, StageDone), !.outcome = Resolved]

\* fetchAndParseRecipe after fetchHtmlWithProxy returned html: the parse
\* stage, the parse, the error without recipe; then the image stage and the
\* request for the image, or the last stage and the return
AfterParse(parsed, recipe) ==
  IF recipe.kind = "null"
  THEN [parsed EXCEPT !.pc = "settled",
                      !.outcome = Rejected(ImportError("no-recipe", 0))]
  ELSE IF recipe.kind = "TypeError"
  THEN [parsed EXCEPT !.pc = "settled",
                      !.outcome = Rejected(ImportError("TypeError", 0))]
  ELSE IF recipe.image.def /\ recipe.image.text # <<>>
  THEN [parsed EXCEPT !.pc = "image", !.recipe = recipe,
                      !.original = recipe.image,
                      !.stages = Append(@, StageImage)]
  ELSE [parsed EXCEPT !.pc = "settled", !.recipe = recipe,
                      !.stages = Append(@, StageDone),
                      !.outcome = Resolved]
AfterHtml(t, html) ==
  AfterParse([t EXCEPT !.stages = Append(@, StageParse)], parseRecipeFromHtml(html))

\* response.arrayBuffer() of the response with a success status settles: the
\* text is returned and the import goes on, or the failure is caught as the
\* failure of the endpoint
BodyAnswer ==
  /\ Importing("body")
  /\ \E answer \in BodyAnswers :
       task' = IF answer = "delivered"
               THEN AfterHtml([task EXCEPT !.answers = Append(@, "ok"),
                                           !.html = task.proxy],
                              ImportPages[task.page].html)
               ELSE ProxyFailed(task, "body")
  /\ PageFrame

\* the download of the image settles
ImageAnswer ==
  /\ Importing("image")
  /\ \E answer \in ImageAnswers :
       task' = IF answer = "base64"
               THEN [task EXCEPT !.pc = "settled", !.recipe.image = Base64Image,
                                 !.stages = Append(@, StageDone),
                                 !.outcome = Resolved,
                                 !.download = answer]
               ELSE ImageFailure([task EXCEPT !.download = answer])
  /\ PageFrame

InitImport ==
  /\ InitPage
  /\ \E p \in 1..Len(ImportPages) :
       task = [fn |-> "fetchAndParseRecipe", pc |-> "start", page |-> p,
               stages |-> <<>>, proxy |-> 0, contacts |-> <<>>,
               answers |-> <<>>, lastError |-> NoError, html |-> 0,
               recipe |-> [kind |-> "none", image |-> Undefined],
               original |-> Undefined, download |-> "none",
               outcome |-> ImportPending]
NextImport == ImportCall \/ ProxyAnswer \/ BodyAnswer \/ ImageAnswer
SpecImport == InitImport /\ [][NextImport]_vars

\* what the import has logged so far
C30_Failures == {"status", "network", "timeout", "body"}
C30_InOrder ==
  /\ Len(task.contacts) <= ProxyCount
  /\ task.contacts = [k \in 1..Len(task.contacts) |-> k]
  /\ Len(task.answers) \in {Len(task.contacts) - 1, Len(task.contacts)}
  /\ Len(task.answers) < Len(task.contacts) <=> task.pc \in {"fetch", "body"}
C30_FailureIsFollowed ==
  \A k \in 1..Len(task.answers) :
    task.answers[k] \in C30_Failures /\ k < ProxyCount => Len(task.contacts) > k
C30_AllFailed ==
  /\ Len(task.answers) = ProxyCount
  /\ \A k \in 1..ProxyCount : task.answers[k] \in C30_Failures
C30_LastErrorThrown ==
  /\ C30_AllFailed =>
       task.outcome = Rejected(ImportError(task.answers[ProxyCount], ProxyCount))
  /\ task.outcome.state = "rejected" /\ task.outcome.error.from # 0 => C30_AllFailed
\* C30 as stated: fetchHtmlWithProxy contacts the endpoints one at a time in
\* list order, each at most once; the first endpoint that answers with a
\* success status ends the chain, its text is returned and no later endpoint
\* is contacted; a failed endpoint is followed by the next one; when all have
\* failed the call rejects with the error of the last endpoint
C30_FirstSuccessStatusEndsChain ==
  Importing("fetch") \/ Importing("body") \/ Importing("image")
    \/ Importing("settled") =>
      /\ C30_InOrder
      /\ \A k \in 1..Len(task.answers) :
           task.answers[k] \in {"ok", "body"} =>
             Len(task.contacts) = k /\ task.html = k
      /\ C30_FailureIsFollowed
      /\ C30_LastErrorThrown
\* C30, amended: fetchHtmlWithProxy contacts the endpoints one at a time in
\* list order, each at most once; the first endpoint that answers with a
\* success status and whose body is read ends the chain, its text is returned
\* and no later endpoint is contacted; an endpoint that times out, fails,
\* answers with another status or whose body cannot be read is followed by the
\* next one; when all have failed the call rejects with the error of the last
\* endpoint
C30_FirstReadSuccessEndsChain ==
  Importing("fetch") \/ Importing("body") \/ Importing("image")
    \/ Importing("settled") =>
      /\ C30_InOrder
      /\ \A k \in 1..Len(task.answers) :
           task.answers[k] = "ok" => Len(task.contacts) = k /\ task.html = k
      /\ task.html # 0 =>
           Len(task.answers) = task.html /\ task.answers[task.html] = "ok"
      /\ C30_FailureIsFollowed
      /\ C30_LastErrorThrown
\* all four endpoints failed, each in another way, the second after a success
\* status
C30_Witness ==
  /\ Importing("settled")
  /\ task.answers = <<"timeout", "body", "network", "status">>
  /\ task.outcome = Rejected(ImportError("status", ProxyCount))

C29_Page == ImportPages[task.page]
C29_HasImage == C29_Page.recipe /\ C29_Page.image.def /\ C29_Page.image.text # <<>>
C29_Upgraded(url) ==
  IF startsWith(url, <<"h", "t", "t", "p", ":", "/", "/">>)
  THEN <<"h", "t", "t", "p", "s", ":", "/", "/">> \o SubSeq(url, 8, Len(url))
  ELSE url
C29_Orders ==
  {<<StageLoad, StageParse, StageImage, StageDone>>,
   <<StageLoad, StageParse, StageDone>>}
C37_RejectsOnlyUnwritten ==
  \A c \in Slots :
    /\ calls[c].pc = "failed"
         => \A j \in AcceptedPuts(c) : LogOf(c)[j].key # calls[c].key
    /\ \A j \in AcceptedPuts(c) : \A m \in (j + 1)..Len(LogOf(c)) :
         LogOf(c)[m].key = LogOf(c)[j].key
           => LogOf(c)[m].kind = "GET" /\ LogOf(c)[m].site = "refresh"

\* ------------------------------------------- the attempts of a remote save
\* the single-record saves that carry their own retry loop
LoopSaves == {"saveMetadata", "savePlanningEntry", "saveShoppingList"}
Waits(c) == {j \in 1..Len(LogOf(c)) : LogOf(c)[j].kind = "WAIT"}
\* the array a read of the version with this token returns
ArrOfVersion(sha) == IF sha.def THEN ParseOrEmpty(sha.h) ELSE <<>>

\* the requests and waits a call of one of the three saves has made so far
C33_Attempts(c) ==
  LET k == calls[c]
      log == k.log
  IN /\ Cardinality(Puts(c)) <= 3
     /\ Cardinality(Waits(c)) <= 2
     /\ k.pc \in {"done", "failed"} => log[Len(log)].kind # "WAIT"
     /\ \A j \in 1..Len(log) :
          LET e == log[j]
          IN /\ e.out \in 0..2
             /\ (e.kind = "GET" /\ e.site = "read") => e.nc
             /\ e.kind = "PUT" =>
                  /\ e.att = 0
                  /\ j > 2
                  /\ LET g == log[j - 2]
                     IN /\ g.kind = "GET" /\ g.site = "read" /\ g.out = e.out
                        /\ g.st \in {200, 404}
                        /\ e.data = Upsert(ArrOfVersion(g.sha), k.rec)
             /\ e.kind = "WAIT" =>
                  /\ e.site = "helper"
                  /\ e.ms = IF e.out = 0 THEN 150 ELSE 300
                  /\ e.out < 2
                  /\ log[j - 1].kind = "PUT" /\ log[j - 1].st = 409
                  /\ log[j - 1].out = e.out
             /\ (j > 1 /\ e.out # log[j - 1].out) =>
                  /\ log[j - 1].kind = "WAIT"
                  /\ e.out = log[j - 1].out + 1

\* the backoff waits of saveData's own loop
C33_SaveDataWaits(c) ==
  \A j \in Waits(c) :
    LET e == LogOf(c)[j]
    IN e.site = "saveData" =>
         /\ e.ms = IF e.att = 0 THEN 100 ELSE 200
         /\ e.att < 2
         /\ Cardinality({m \in Waits(c) : LogOf(c)[m].key = e.key}) <= 2
         /\ Cardinality({m \in Puts(c) : LogOf(c)[m].key = e.key}) <= 3

\* the read that opens an attempt of one of the three saves returns the
\* version the repository holds at that moment, the one a conflicting
\* writer has committed included
C33_Step ==
  \A c \in Slots :
    /\ calls'[c].op \in LoopSaves => C33_Attempts(c)'
    /\ C33_SaveDataWaits(c)'
    /\ (calls[c].op \in LoopSaves /\ calls[c].pc = "read" /\ calls'[c].pc = "sd_get")
         => /\ calls'[c].base = CurFile(calls[c].key)
            /\ calls'[c].data = Upsert(RemoteArr(calls[c].key), calls[c].rec)

\* C33: saveMetadata, savePlanningEntry and saveShoppingList make at most 3
\* attempts; each attempt reads the dataset again with the cache bypassed,
\* upserts the record into that array and hands it to a saveData of one
\* attempt, so the array written after a 409 is built on what the repository
\* held after the conflicting commit; a further attempt follows only a 409,
\* after a wait of 150 ms, then 300 ms, and no wait follows the last
\* attempt; the waits of saveData's own loop are 100 ms, then 200 ms; a call
\* makes at most 3 PUTs and 2 waits
C33_HelperAttempts == [][C33_Step]_vars

\* a third attempt of saveMetadata, after two conflicts and the waits of
\* 150 and 300 ms, has been accepted
C33_Witness ==
  \E c \in Slots :
    /\ calls[c].op = "saveMetadata"
    /\ calls[c].pc = "done"
    /\ Cardinality(Puts(c)) = 3
    /\ {LogOf(c)[j].ms : j \in Waits(c)} = {150, 300}
    /\ \E j \in AcceptedPuts(c) : LogOf(c)[j].out = 2

\* ------------------------------------ the maxRetries argument of the saves
\* the largest maxRetries a caller passes
MaxRetriesArg == 3

\* saveMetadata / savePlanningEntry / saveShoppingList(config, x, maxRetries):
\* the for loop runs only when 0 < maxRetries; when it does not run the
\* function ends and the promise resolves
CallRetries(c, op, i, v, n) ==
  /\ c = 1
  /\ calls[c].pc = "idle"
  /\ LET k == [StartRecord(op, i, v, token) EXCEPT !.maxH = n,
                                                    !.pre = StoreOf("github")]
     IN calls' = [calls EXCEPT ![c] = IF 0 < n THEN k ELSE [k EXCEPT !.pc = "done"]]
  /\ events' = [events EXCEPT !.calls = @ + 1]
  /\ UNCHANGED <<token, remote, httpCache, shaCache, local, world, clip, book, task>>

\* saveData(config, fileKey, data, message, maxRetries)
CallSaveData(c, f, arr, n) ==
  /\ c = 1
  /\ calls[c].pc = "idle"
  /\ calls' = [calls EXCEPT ![c] =
       EnterSaveData([Idle EXCEPT !.op = "saveData", !.helper = "saveData",
                                  !.backend = "github", !.cfgTok = token,
                                  !.key = f, !.pre = StoreOf("github")],
                     arr, n)]
  /\ events' = [events EXCEPT !.calls = @ + 1]
  /\ UNCHANGED <<token, remote, httpCache, shaCache, local, world, clip, book, task>>

\* the saves of the remote adapter called with every maxRetries, other
\* devices writing and requests failing
NextRetries ==
  \/ \E op \in LoopSaves : \E a \in CallArgs(op) : \E n \in 0..MaxRetriesArg :
       /\ events.calls < MaxCalls
       /\ a[1] # OtherId
       /\ CallRetries(1, op, a[1], a[2], n)
  \/ \E f \in FILES : \E n \in 0..MaxRetriesArg :
       /\ events.calls < MaxCalls
       /\ CallSaveData(1, f, <<Rec(1, ValB(f))>>, n)
  \/ \E c \in Slots : Read(c)
  \/ \E c \in Slots : SdGet(c)
  \/ \E c \in Slots : SdPut(c)
  \/ \E c \in Slots : SdReget(c)
  \/ \E c \in Slots : SdWait(c)
  \/ \E c \in Slots : HelperWait(c)
  \/ \E f \in FILES : OtherWrite(f)
  \/ \E c \in Slots : Return(c)

SpecRetries == Init /\ [][NextRetries]_vars

\* the call has resolved
ResolvedSave(c) == calls[c].pc = "done" /\ calls[c].op \in LoopSaves \cup {"saveData"}
\* the array of an accepted PUT of the call holds what the caller handed in
CarriesData(c, e) ==
  IF calls[c].op = "saveData" THEN e.data = calls[c].data
  ELSE Find(e.data, calls[c].id) = calls[c].rec

\* C38: saveData, saveMetadata, savePlanningEntry and saveShoppingList
\* resolve only if a PUT carrying the caller's data was accepted by the
\* host, whatever maxRetries they are called with, 0 included
C38_ResolvedMeansWritten ==
  \A c \in Slots :
    ResolvedSave(c) => \E j \in AcceptedPuts(c) : CarriesData(c, LogOf(c)[j])

\* ------------------------------------- a document that is not valid JSON
\* a dataset file whose text JSON.parse rejects: the records were written
\* but the text is cut short or was edited by hand
BrokenText(f) == [json |-> FALSE, arr |-> SeedArr(f)]
\* the repository with the files of B broken and the others well formed
BrokenRemote(B) ==
  [f \in PATHS |-> IF f \in B THEN [exists |-> TRUE, text |-> BrokenText(f)]
                   ELSE SeedRemote[f]]

InitBroken ==
  /\ token = "t"
  /\ world = "alone"
  /\ remote \in {BrokenRemote(B) : B \in SUBSET FILES}
  /\ local = EmptyLocal
  /\ InitClient

\* reads and single-record saves of a client that is alone on a healthy host
NextBroken ==
  \/ \E op \in ReadOps :
       events.calls < MaxSoloCalls /\ Call(1, op, 0, "-")
  \/ \E op \in ByIdOps : \E i \in Ids :
       events.calls < MaxSoloCalls /\ Call(1, op, i, "-")
  \/ \E op \in SaveOps : \E a \in CallArgs(op) :
       events.calls < MaxSoloCalls /\ Call(1, op, a[1], a[2])
  \/ \E c \in Slots : Get(c)
  \/ \E c \in Slots : Read(c)
  \/ \E c \in Slots : SdGet(c)
  \/ \E c \in Slots : SdPut(c)
  \/ \E c \in Slots : SdReget(c)
  \/ \E c \in Slots : Return(c)

SpecBroken == InitBroken /\ [][NextBroken]_vars

\* the request e was answered with a file whose text is not JSON
GotBroken(e) == e.kind = "GET" /\ e.st = 200 /\ e.sha.def /\ ~e.sha.h.json

C39_Step ==
  \A c \in Slots :
    LET k == calls'[c]
        n == Len(k.log)
    IN /\ k.pc # "failed"
       /\ (calls[c].pc \in {"get", "read"} /\ n > Len(calls[c].log)
             /\ GotBroken(k.log[n])) =>
            /\ shaCache'[k.key] = k.log[n].sha
            /\ calls[c].pc = "get" =>
                 k.pc = "done" /\ k.gotR = <<>> /\ k.res = NoRec
            /\ calls[c].pc = "read" => k.pc = "sd_get" /\ k.data = <<k.rec>>
       /\ (k.pc = "done" /\ k.op \in SaveOps /\ GotBroken(k.log[1])) =>
            /\ AcceptedPuts(c)' # {}
            /\ remote'[k.key] = [exists |-> TRUE, text |-> Stringify(<<k.rec>>)]

\* C39: when a dataset file exists but its text is not valid JSON, a read
\* returns the empty list without error and records the token of the file
\* in shaCache; a single-record save that read such a text succeeds and
\* leaves a document whose array holds the saved record and nothing else
C39_BrokenDocumentReadsEmpty == [][C39_Step]_vars

\* saveRecipe has completed on a recipes file that was not JSON: the token
\* of the broken file was recorded, and the records of the broken text are
\* gone
C39_Witness ==
  \E c \in Slots :
    /\ calls[c].op = "saveRecipe" /\ calls[c].pc = "done"
    /\ GotBroken(LogOf(c)[1])
    /\ LogOf(c)[1].sha = ShaOf(BrokenText("recipes"))
    /\ remote["recipes"].text = Stringify(<<calls[c].rec>>)
    /\ Len(BrokenText("recipes").arr) = 2

\* ------------------------------- the recipes store and its in-memory list
\* In this part book holds what the functions of stores/recipes.ts work on:
\* the stored recipes and metadata rows as the data service returns them,
\* recipesStore (the in-memory list), and counters; task holds the store
\* functions in progress. Every awaited data-service call is one step.
MaxFaults == 1

NoStored == [has |-> FALSE, id |-> 0, title |-> "-"]
Stored(i, t) == [has |-> TRUE, id |-> i, title |-> t]
NoMeta == [has |-> FALSE, id |-> 0, status |-> "-", history |-> <<>>]
Meta(i, s, h) == [has |-> TRUE, id |-> i, status |-> s, history |-> h]
\* { id, status: 'to-test', tags: [], history: [] }
DefaultRow(i) == Meta(i, "to-test", <<>>)

\* Partial<RecipeMetadata>: the fields it carries (id 0: none)
NoUpdates == [id |-> 0, setStatus |-> FALSE, status |-> "-",
              setHistory |-> FALSE, history |-> <<>>]
MetaUpdates ==
  {[NoUpdates EXCEPT !.id = i, !.setStatus = TRUE, !.status = "validated"] :
     i \in Ids \cup {0}}
\* updateMetadata: { ...existing, ...updates, id }
UpdatedMetadata(existing, u, i) ==
  Meta(i, IF u.setStatus THEN u.status ELSE existing.status,
          IF u.setHistory THEN u.history ELSE existing.history)

\* a store function in progress: pc names the data-service call it awaits
NoFn == [fn |-> "none", pc |-> "idle", id |-> 0, title |-> "-", u |-> NoUpdates,
         first |-> NoMeta, seen |-> NoMeta, row |-> NoMeta, entry |-> 0,
         writes |-> 0, err |-> "none"]
StoreFns == {"createRecipe", "updateRecipe", "updateMetadata", "deleteRecipe",
             "addHistoryEntry"}
FirstCall(fn) ==
  CASE fn = "createRecipe" -> "saveRecipe"
    [] fn = "updateRecipe" -> "getRecipe"
    [] fn = "updateMetadata" -> "getMetadata"
    [] fn = "deleteRecipe" -> "deleteRecipe"
    [] OTHER -> "getMetadataFirst"
WriteCalls == {"saveRecipe", "saveMetadata", "createDefaultMetadata", "deleteRecipe"}

StoreFrame ==
  UNCHANGED <<token, remote, httpCache, shaCache, local, calls, events, world, clip>>

\* a function of the store is called and runs to its first await; the id of
\* createRecipe is a fresh uuid; the entry of addHistoryEntry carries the
\* time of the call (handleMadeIt does not wait for an earlier call)
StoreStart(l, fn, i, t, u) ==
  /\ task[l].pc = "idle"
  /\ book.calls < MaxSoloCalls
  /\ fn = "createRecipe" =>
       /\ ~book.recipes[i].has /\ ~book.metadata[i].has
       /\ \A m \in Lanes : task[m].id # i
  /\ fn # "updateMetadata" => u = NoUpdates
  /\ fn \notin {"createRecipe", "updateRecipe"} => t = "-"
  /\ task' = [task EXCEPT ![l] =
       [NoFn EXCEPT !.fn = fn, !.pc = FirstCall(fn), !.id = i, !.title = t,
                    !.u = u, !.entry = book.calls + 1,
                    !.row = IF fn = "createRecipe" THEN DefaultRow(i) ELSE NoMeta]]
  /\ book' = [book EXCEPT !.calls = @ + 1]
  /\ StoreFrame

\* variant: the list is updated as soon as something has been written
UpdatesListEarly(k) == k.writes > 0

\* the in-memory list is updated after the last await of the function
UpdatesList(k) == k.pc = "done"

\* recipesStore.update(...) of each function
Listed(k, list) ==
  CASE k.fn = "createRecipe" ->
         Append(list, [id |-> k.id, title |-> k.title, metadata |-> k.row])
    [] k.fn = "updateRecipe" ->
         [j \in 1..Len(list) |->
            IF list[j].id = k.id THEN [list[j] EXCEPT !.title = k.title] ELSE list[j]]
    [] k.fn \in {"updateMetadata", "addHistoryEntry"} ->
         [j \in 1..Len(list) |->
            IF list[j].id = k.id THEN [list[j] EXCEPT !.metadata = k.row] ELSE list[j]]
    [] OTHER -> SelectSeq(list, LAMBDA r : r.id # k.id)

\* the function after the call it awaited has resolved, up to its next await
Continued(k) ==
  LET w == [k EXCEPT !.writes = IF k.pc \in WriteCalls THEN @ + 1 ELSE @]
  IN CASE k.pc = "saveRecipe" ->
            [w EXCEPT !.pc = IF k.fn = "createRecipe" THEN "saveMetadata" ELSE "done"]
       [] k.pc = "getRecipe" ->
            IF book.recipes[k.id].has THEN [w EXCEPT !.pc = "saveRecipe"]
            ELSE [w EXCEPT !.pc = "failed", !.err = "Recipe not found"]
       [] k.pc = "getMetadataFirst" ->
            IF book.metadata[k.id].has
            THEN [w EXCEPT !.pc = "getMetadata", !.first = book.metadata[k.id],
                           !.u = [NoUpdates EXCEPT !.setHistory = TRUE,
                                    !.history = Append(book.metadata[k.id].history,
                                                       k.entry)]]
            ELSE [w EXCEPT !.pc = "failed", !.err = "Metadata not found"]
       [] k.pc = "getMetadata" ->
            IF book.metadata[k.id].has
            THEN [w EXCEPT !.pc = "saveMetadata", !.seen = book.metadata[k.id],
                           !.row = UpdatedMetadata(book.metadata[k.id], k.u, k.id)]
            ELSE [w EXCEPT !.pc = "createDefaultMetadata"]
       [] k.pc = "createDefaultMetadata" ->
            [w EXCEPT !.pc = "saveMetadata",
                      !.row = UpdatedMetadata(DefaultRow(k.id), k.u, k.id)]
       [] OTHER -> [w EXCEPT !.pc = "done"]

\* what the data service has stored when the awaited call has resolved
StoredAfter(k) ==
  CASE k.pc = "saveRecipe" ->
         [book EXCEPT !.recipes[k.id] = Stored(k.id, k.title)]
    [] k.pc = "createDefaultMetadata" ->
         [book EXCEPT !.metadata[k.id] = DefaultRow(k.id)]
    [] k.pc = "saveMetadata" ->
         [book EXCEPT !.metadata[k.row.id] = k.row]
    [] k.pc = "deleteRecipe" ->
         [book EXCEPT !.recipes[k.id] = NoStored, !.metadata[k.id] = NoMeta]
    [] OTHER -> book

\* the data-service call a function awaits resolves
StoreResolve(l) ==
  LET k == task[l]
      k1 == Continued(k)
      b1 == StoredAfter(k)
  IN /\ k.pc \notin {"idle", "done", "failed"}
     /\ task' = [task EXCEPT ![l] = k1]
     /\ book' = IF UpdatesList(k1)
                THEN [b1 EXCEPT !.recipesStore = Listed(k1, @)] ELSE b1
     /\ StoreFrame

\* a write of the data service rejects: the function has no catch and
\* rejects with the same error
StoreReject(l) ==
  LET k == task[l]
  IN /\ k.pc \in WriteCalls
     /\ book.faults < MaxFaults
     /\ task' = [task EXCEPT ![l] = [k EXCEPT !.pc = "failed", !.err = "write failed"]]
     /\ book' = [book EXCEPT !.faults = @ + 1]
     /\ StoreFrame

\* the caller has received the outcome of the function
StoreSettled(l) ==
  /\ task[l].pc \in {"done", "failed"}
  /\ task' = [task EXCEPT ![l] = NoFn]
  /\ UNCHANGED book
  /\ StoreFrame

\* the adapters below the store and the pages, at rest
InitBelow ==
  /\ token = "null"
  /\ world = "alone"
  /\ remote = EmptyRemote
  /\ local = EmptyLocal
  /\ httpCache = [f \in PATHS |-> NullFile]
  /\ clip = NoClip
  /\ shaCache = [f \in FILES |-> NoSha]
  /\ calls = [c \in Slots |-> Idle]
  /\ events = [calls |-> 0, env |-> 0, cfg |-> 0]

\* one recipe with its row is stored and listed, or nothing is
InitStoreFns ==
  /\ InitBelow
  /\ task = [l \in Lanes |-> NoFn]
  /\ \E one \in BOOLEAN :
       book = [recipes |-> [i \in Ids |-> IF one /\ i = 1 THEN Stored(1, "a")
                                          ELSE NoStored],
               metadata |-> [i \in Ids |-> IF one /\ i = 1 THEN DefaultRow(1)
                                           ELSE NoMeta],
               recipesStore |-> IF one
                                THEN <<[id |-> 1, title |-> "a",
                                        metadata |-> DefaultRow(1)]>>
                                ELSE <<>>,
               calls |-> 0, faults |-> 0]

NextStoreFns ==
  \/ \E l \in Lanes, i \in Ids : StoreStart(l, "createRecipe", i, "a", NoUpdates)
  \/ \E l \in Lanes, i \in Ids : StoreStart(l, "updateRecipe", i, "b", NoUpdates)
  \/ \E l \in Lanes, i \in Ids, u \in MetaUpdates :
       StoreStart(l, "updateMetadata", i, "-", u)
  \/ \E l \in Lanes, i \in Ids : StoreStart(l, "deleteRecipe", i, "-", NoUpdates)
  \/ \E l \in Lanes, i \in Ids : StoreStart(l, "addHistoryEntry", i, "-", NoUpdates)
  \/ \E l \in Lanes : StoreResolve(l)
  \/ \E l \in Lanes : StoreReject(l)
  \/ \E l \in Lanes : StoreSettled(l)

SpecStoreFns == InitStoreFns /\ [][NextStoreFns]_vars

\* the function of lane l has completed in this step
Completes(l, fns) ==
  /\ task[l].pc \notin {"idle", "done", "failed"}
  /\ task'[l].pc = "done"
  /\ task[l].fn \in fns

C35_Step ==
  \A l \in Lanes :
    LET k == task[l]
        k1 == task'[l]
        base == IF k.seen.has THEN k.seen ELSE DefaultRow(k.id)
    IN /\ Completes(l, {"updateMetadata"}) =>
            /\ book'.metadata[k.id] =
                 [has |-> TRUE, id |-> k.id,
                  status |-> IF k.u.setStatus THEN k.u.status ELSE base.status,
                  history |-> IF k.u.setHistory THEN k.u.history ELSE base.history]
            /\ ~k.seen.has => k.writes = 1
       /\ Completes(l, {"addHistoryEntry"}) =>
            /\ book'.metadata[k.id].history = Append(k.first.history, k.entry)
            /\ Len(book'.metadata[k.id].history)
                 = Len(book.metadata[k.id].history) + 1
       /\ (k.fn = "addHistoryEntry" /\ k.pc = "getMetadataFirst"
             /\ ~book.metadata[k.id].has /\ k1 # k) =>
            /\ k1.pc = "failed" /\ k1.err = "Metadata not found"
            /\ k1.writes = 0
            /\ book'.metadata = book.metadata /\ book'.recipes = book.recipes

\* C35: updateMetadata(id, updates) stores the existing row, or the default
\* row it has first persisted when there is none, overlaid with the updates
\* and with the id forced to id; addHistoryEntry(id) stores the history it
\* read with one entry added at the end, rejects with 'Metadata not found'
\* without writing when there is no row, and every completed
\* addHistoryEntry, overlapping another or not, makes the stored history
\* one entry longer
C35_HistoryGrowsByOne == [][C35_Step]_vars

\* the data-service writes a function makes when all of them succeed
WritesOf(k) ==
  CASE k.fn = "createRecipe" -> 2
    [] k.fn \in {"updateMetadata", "addHistoryEntry"} ->
         IF k.seen.has THEN 1 ELSE 2
    [] OTHER -> 1

C36_Step ==
  /\ book'.recipesStore # book.recipesStore =>
       \E l \in Lanes :
         /\ Completes(l, StoreFns)
         /\ task'[l].writes = WritesOf(task'[l])
  /\ \A l \in Lanes :
       LET k == task[l]
           k1 == task'[l]
       IN /\ (k1.pc = "failed" /\ k.pc # "failed") =>
               /\ book'.recipesStore = book.recipesStore
               /\ k1.err # "none"
               /\ k.pc \in WriteCalls => book'.recipes = book.recipes
                                         /\ book'.metadata = book.metadata
          /\ (k.fn = "updateRecipe" /\ k.pc = "getRecipe"
                /\ ~book.recipes[k.id].has /\ k1 # k) =>
               /\ k1.pc = "failed" /\ k1.err = "Recipe not found"
               /\ k1.writes = 0
               /\ book'.recipes = book.recipes /\ book'.metadata = book.metadata

\* C36: in createRecipe, updateRecipe, updateMetadata and deleteRecipe the
\* in-memory list changes only in the step in which the function completes,
\* all its data-service writes having succeeded; when a write rejects the
\* list stays as it was and the function rejects with the error;
\* updateRecipe of an id that is not stored rejects with 'Recipe not found'
\* and writes nothing
C36_ListFollowsWrites == [][C36_Step]_vars

\* createRecipe has stored the recipe, its saveMetadata has rejected, and
\* the list does not show the recipe
C36_Witness ==
  \E l \in Lanes :
    /\ task[l].fn = "createRecipe" /\ task[l].pc = "failed"
    /\ task[l].writes = 1
    /\ book.recipes[task[l].id].has
    /\ \A j \in 1..Len(book.recipesStore) : book.recipesStore[j].id # task[l].id

\* ------------------------------------------------ the URL of an image
\* the pieces the image URLs are made of, and the longest URL in pieces
MaxPieces == 3
UrlPieces ==
  {<<"h", "t", "t", "p", ":", "/", "/">>,
   <<"h", "t", "t", "p", "s", ":", "/", "/">>,
   <<"d", "a", "t", "a", ":">>,
   <<"H", "T", "T", "P", ":", "/", "/">>,
   <<"x">>,
   <<"/", "/">>}
RECURSIVE UrlsOf(_)
UrlsOf(n) ==
  IF n = 0 THEN {<<>>}
  ELSE UrlsOf(n - 1) \cup {p \o u : p \in UrlPieces, u \in UrlsOf(n - 1)}
\* string | undefined
UrlInputs == {Undefined} \cup {Text(u) : u \in UrlsOf(MaxPieces)}

\* an image URL is secured when the recipe is imported and again each time
\* a page renders it (src={secureImageUrl(recipe.image)})
InitSecure ==
  /\ InitPage
  /\ \E url \in UrlInputs :
       task = [fn |-> "secureImageUrl", pc |-> "input", url |-> url,
               once |-> Undefined, twice |-> Undefined]

SecureOnce ==
  /\ task.pc = "input"
  /\ task' = [task EXCEPT !.pc = "once", !.once = secureImageUrl(task.url)]
  /\ PageFrame

SecureTwice ==
  /\ task.pc = "once"
  /\ task' = [task EXCEPT !.pc = "twice", !.twice = secureImageUrl(task.once)]
  /\ PageFrame

NextSecure == SecureOnce \/ SecureTwice

SpecSecure == InitSecure /\ [][NextSecure]_vars

HttpPrefix == <<"h", "t", "t", "p", ":", "/", "/">>
HasHttpPrefix(s) == Len(s) >= 7 /\ SubSeq(s, 1, 7) = HttpPrefix

\* C32: secureImageUrl returns undefined for undefined; a URL that begins
\* with 'http://' comes back with that prefix replaced by 'https://' and
\* the rest as it was; every other string (data: and https URLs included)
\* comes back unchanged; applying it a second time changes nothing
C32_SecureImageUrl ==
  task.pc \in {"once", "twice"} =>
    /\ ~task.url.def => ~task.once.def
    /\ (task.url.def /\ HasHttpPrefix(task.url.text)) =>
         /\ task.once.def
         /\ task.once.text = <<"h", "t", "t", "p", "s", ":", "/", "/">>
                               \o SubSeq(task.url.text, 8, Len(task.url.text))
    /\ (task.url.def /\ ~HasHttpPrefix(task.url.text)) => task.once = task.url
    /\ task.pc = "twice" => task.twice = task.once

\* 'http://http://x' has become 'https://http://x' and stays so
C32_Witness ==
  /\ task.pc = "twice"
  /\ task.url = Text(HttpPrefix \o HttpPrefix \o <<"x">>)
  /\ task.twice = Text(<<"h", "t", "t", "p", "s", ":", "/", "/">> \o HttpPrefix \o <<"x">>)

\* ------------------------------------------------------ the planning page
\* In this part book holds the stored planning entries of the week shown
\* and the recipes of the recipes store; task holds the state of the
\* WeekPlanner component and the saves it awaits.
MaxEntries == 3
Days == {0}
MealSlots == {"lunch", "dinner"}
NoEntry == [id |-> 0, day |-> 0, slot |-> "-", recipeId |-> 0]

\* getMealForSlot: planning.find(p => p.day === day && p.slot === slot)
getMealForSlot(planning, day, slot) ==
  IF \E j \in 1..Len(planning) : planning[j].day = day /\ planning[j].slot = slot
  THEN planning[CHOOSE j \in 1..Len(planning) :
         /\ planning[j].day = day /\ planning[j].slot = slot
         /\ \A m \in 1..(j - 1) : ~(planning[m].day = day /\ planning[m].slot = slot)]
  ELSE NoEntry
\* getRecipeById: $recipes.find(r => r.id === id) is defined
HasRecipe(id) == id \in book.recipes

\* the meal cell: {#if meal && recipe} the card {:else} the + button
ShowsAdd(day, slot) ==
  LET meal == getMealForSlot(task.planning, day, slot)
  IN ~(meal # NoEntry /\ HasRecipe(meal.recipeId))

InitPlanner ==
  /\ InitBelow
  /\ book = [planning |-> {}, recipes |-> Ids, entries |-> 0]
  /\ task = [planning |-> <<>>, showRecipeSelector |-> FALSE,
             selectedDay |-> 0, selectedSlot |-> "-", saving |-> {}]

\* openRecipeSelector(day, slot), from the + button of a cell
openRecipeSelector(day, slot) ==
  /\ ~task.showRecipeSelector
  /\ ShowsAdd(day, slot)
  /\ task' = [task EXCEPT !.selectedDay = day, !.selectedSlot = slot,
                          !.showRecipeSelector = TRUE]
  /\ UNCHANGED book
  /\ StoreFrame

\* the close button or the overlay of the selector
closeRecipeSelector ==
  /\ task.showRecipeSelector
  /\ task' = [task EXCEPT !.showRecipeSelector = FALSE]
  /\ UNCHANGED book
  /\ StoreFrame

\* selectRecipe(recipeId) up to await savePlanningEntry(entry); the selector
\* stays open while the save is awaited
selectRecipe(recipeId) ==
  /\ task.showRecipeSelector
  /\ HasRecipe(recipeId)
  /\ book.entries < MaxEntries
  /\ task' = [task EXCEPT !.saving = @ \cup
       {[id |-> book.entries + 1, day |-> task.selectedDay,
         slot |-> task.selectedSlot, recipeId |-> recipeId]}]
  /\ book' = [book EXCEPT !.entries = @ + 1]
  /\ StoreFrame

\* savePlanningEntry(entry) resolves: the entry is stored;
\* planning = [...planning, entry]; showRecipeSelector = false
selectRecipeSaved(e) ==
  /\ e \in task.saving
  /\ book' = [book EXCEPT !.planning = @ \cup {e}]
  /\ task' = [task EXCEPT !.saving = @ \ {e}, !.planning = Append(@, e),
                          !.showRecipeSelector = FALSE]
  /\ StoreFrame

\* removeMeal(entry), from the card of a cell: deletePlanningEntry(entry.id),
\* then planning = planning.filter(p => p.id !== entry.id)
removeMeal(day, slot) ==
  LET meal == getMealForSlot(task.planning, day, slot)
  IN /\ ~task.showRecipeSelector
     /\ ~ShowsAdd(day, slot)
     /\ book' = [book EXCEPT !.planning = {e \in @ : e.id # meal.id}]
     /\ task' = [task EXCEPT !.planning = SelectSeq(@, LAMBDA p : p.id # meal.id)]
     /\ StoreFrame

\* deleteRecipe(id) of the recipes store: the recipe leaves the store and
\* the list; the planning entries stay
PlannedRecipeDeleted(id) ==
  /\ HasRecipe(id)
  /\ book' = [book EXCEPT !.recipes = @ \ {id}]
  /\ UNCHANGED task
  /\ StoreFrame

NextPlanner ==
  \/ \E day \in Days, slot \in MealSlots : openRecipeSelector(day, slot)
  \/ closeRecipeSelector
  \/ \E id \in Ids : selectRecipe(id)
  \/ \E e \in task.saving : selectRecipeSaved(e)
  \/ \E day \in Days, slot \in MealSlots : removeMeal(day, slot)
  \/ \E id \in Ids : PlannedRecipeDeleted(id)

SpecPlanner == InitPlanner /\ [][NextPlanner]_vars

\* C34: the planning page never stores a second entry for a (weekStart,
\* day, slot) that has a stored entry, also when the recipe of the stored
\* entry has been deleted and also while an earlier selectRecipe for the
\* slot is still being saved
C34_OneEntryPerSlot ==
  \A e1, e2 \in book.planning :
    (e1.day = e2.day /\ e1.slot = e2.slot) => e1 = e2

\* ---------------------------------------------------- Base64 of UTF-8 text
\* A string is the sequence of its UTF-16 code units; the text on the wire
\* is a sequence of characters of the Base64 alphabet, "=" and "\n".
MaxUnits == 2
MaxNewlines == 1
\* the code units the strings are made of: line feed, A, e acute, the euro
\* sign, the two halves of U+1F373 (an emoji) and U+FEFF
Units == {10, 65, 233, 8364, 55356, 57203, 65279}
RECURSIVE StringsOf(_)
StringsOf(n) ==
  IF n = 0 THEN {<<>>}
  ELSE StringsOf(n - 1) \cup {<<u>> \o s : u \in Units, s \in StringsOf(n - 1)}

isHighSurrogate(u) == u \in 55296..56319
isLowSurrogate(u) == u \in 56320..57343

\* the scalar values TextEncoder sees: a surrogate pair is one code point,
\* an unpaired surrogate is replaced by U+FFFD
RECURSIVE ScalarValues(_)
ScalarValues(s) ==
  IF s = <<>> THEN <<>>
  ELSE IF isHighSurrogate(s[1]) /\ Len(s) >= 2 /\ isLowSurrogate(s[2])
  THEN <<65536 + (s[1] - 55296) * 1024 + (s[2] - 56320)>>
         \o ScalarValues(SubSeq(s, 3, Len(s)))
  ELSE IF isHighSurrogate(s[1]) \/ isLowSurrogate(s[1])
  THEN <<65533>> \o ScalarValues(Tail(s))
  ELSE <<s[1]>> \o ScalarValues(Tail(s))

\* variant: one byte per code point, its low eight bits
Latin1Byte(cp) == <<cp % 256>>

\* the UTF-8 bytes of a code point
Utf8Bytes(cp) ==
  IF cp < 128 THEN <<cp>>
  ELSE IF cp < 2048 THEN <<192 + (cp \div 64), 128 + (cp % 64)>>
  ELSE IF cp < 65536
  THEN <<224 + (cp \div 4096), 128 + ((cp \div 64) % 64), 128 + (cp % 64)>>
  ELSE <<240 + (cp \div 262144), 128 + ((cp \div 4096) % 64),
         128 + ((cp \div 64) % 64), 128 + (cp % 64)>>

RECURSIVE EncodeScalars(_)
EncodeScalars(cps) ==
  IF cps = <<>> THEN <<>> ELSE Utf8Bytes(Head(cps)) \o EncodeScalars(Tail(cps))
\* new TextEncoder().encode(content)
TextEncode(s) == EncodeScalars(ScalarValues(s))

Base64Alphabet ==
  <<"A", "B", "C", "D", "E", "F", "G", "H", "I", "J", "K", "L", "M",
   "N", "O", "P", "Q", "R", "S", "T", "U", "V", "W", "X", "Y", "Z",
   "a", "b", "c", "d", "e", "f", "g", "h", "i", "j", "k", "l", "m",
   "n", "o", "p", "q", "r", "s", "t", "u", "v", "w", "x", "y", "z",
   "0", "1", "2", "3", "4", "5", "6", "7", "8", "9", "+", "/">>
Base64Char(v) == Base64Alphabet[v + 1]
Base64Value(c) == CHOOSE v \in 0..63 : Base64Alphabet[v + 1] = c

\* btoa(binString): three bytes give four characters, the last group is
\* padded with "="
RECURSIVE btoa(_)
btoa(b) ==
  IF b = <<>> THEN <<>>
  ELSE IF Len(b) = 1
  THEN <<Base64Char(b[1] \div 4), Base64Char((b[1] % 4) * 16), "=", "=">>
  ELSE IF Len(b) = 2
  THEN <<Base64Char(b[1] \div 4), Base64Char((b[1] % 4) * 16 + (b[2] \div 16)),
         Base64Char((b[2] % 16) * 4), "=">>
  ELSE <<Base64Char(b[1] \div 4), Base64Char((b[1] % 4) * 16 + (b[2] \div 16)),
         Base64Char((b[2] % 16) * 4 + (b[3] \div 64)), Base64Char(b[3] % 64)>>
         \o btoa(SubSeq(b, 4, Len(b)))

\* encodeBase64Utf8(content)
encodeBase64Utf8(s) == btoa(TextEncode(s))

\* base64.replace(/\n/g, '')
WithoutNewlines(t) == SelectSeq(t, LAMBDA c : c # "\n")
\* atob: the padding of a text whose length is a multiple of four is dropped
WithoutPadding(t) ==
  IF Len(t) > 0 /\ Len(t) % 4 = 0 /\ t[Len(t)] = "="
  THEN (IF t[Len(t) - 1] = "=" THEN SubSeq(t, 1, Len(t) - 2)
        ELSE SubSeq(t, 1, Len(t) - 1))
  ELSE t
\* atob throws on a character outside the alphabet and on a length of 4n + 1
AtobThrows(t) ==
  \/ \E j \in 1..Len(t) : \A v \in 0..63 : Base64Alphabet[v + 1] # t[j]
  \/ Len(t) % 4 = 1
\* the bytes of groups of four, three or two characters
RECURSIVE BytesOfSextets(_)
BytesOfSextets(q) ==
  IF Len(q) < 2 THEN <<>>
  ELSE IF Len(q) = 2 THEN <<q[1] * 4 + (q[2] \div 16)>>
  ELSE IF Len(q) = 3
  THEN <<q[1] * 4 + (q[2] \div 16), (q[2] % 16) * 16 + (q[3] \div 4)>>
  ELSE <<q[1] * 4 + (q[2] \div 16), (q[2] % 16) * 16 + (q[3] \div 4),
         (q[3] % 4) * 64 + q[4]>> \o BytesOfSextets(SubSeq(q, 5, Len(q)))
AtobOf(t) == BytesOfSextets([j \in 1..Len(t) |-> Base64Value(t[j])])

\* the code units of a code point
UnitsOf(cp) ==
  IF cp < 65536 THEN <<cp>>
  ELSE <<55296 + ((cp - 65536) \div 1024), 56320 + ((cp - 65536) % 1024)>>
isContinuation(b, j) == j <= Len(b) /\ b[j] \in 128..191
\* UTF-8 decoding: a byte that opens no complete sequence gives U+FFFD
RECURSIVE DecodeBytes(_)
DecodeBytes(b) ==
  IF b = <<>> THEN <<>>
  ELSE IF b[1] < 128 THEN <<b[1]>> \o DecodeBytes(Tail(b))
  ELSE IF b[1] \in 194..223 /\ isContinuation(b, 2)
  THEN <<(b[1] - 192) * 64 + (b[2] - 128)>> \o DecodeBytes(SubSeq(b, 3, Len(b)))
  ELSE IF b[1] \in 224..239 /\ isContinuation(b, 2) /\ isContinuation(b, 3)
  THEN <<(b[1] - 224) * 4096 + (b[2] - 128) * 64 + (b[3] - 128)>>
         \o DecodeBytes(SubSeq(b, 4, Len(b)))
  ELSE IF b[1] \in 240..244 /\ isContinuation(b, 2) /\ isContinuation(b, 3)
            /\ isContinuation(b, 4)
  THEN UnitsOf((b[1] - 240) * 262144 + (b[2] - 128) * 4096
                 + (b[3] - 128) * 64 + (b[4] - 128))
         \o DecodeBytes(SubSeq(b, 5, Len(b)))
  ELSE <<65533>> \o DecodeBytes(Tail(b))
\* new TextDecoder().decode(bytes): ignoreBOM is false, a leading byte
\* order mark is dropped
TextDecode(b) ==
  IF Len(b) >= 3 /\ SubSeq(b, 1, 3) = <<239, 187, 191>>
  THEN DecodeBytes(SubSeq(b, 4, Len(b)))
  ELSE DecodeBytes(b)

\* the outcome of decodeBase64Utf8: the string, or an exception of atob
Decoded(t) ==
  IF AtobThrows(t) THEN [thrown |-> TRUE, text |-> <<>>]
  ELSE [thrown |-> FALSE, text |-> TextDecode(AtobOf(t))]
\* decodeBase64Utf8(base64)
decodeBase64Utf8(t) == Decoded(WithoutPadding(WithoutNewlines(t)))

NotDecoded == [thrown |-> FALSE, text |-> <<>>]
\* a text is encoded for a PUT; the host hands the content back with line
\* feeds in it, and getFile decodes it
InitBase64 ==
  /\ InitPage
  /\ \E s \in StringsOf(MaxUnits) :
       task = [fn |-> "base64", pc |-> "input", s |-> s, encoded |-> <<>>,
               wire |-> <<>>, newlines |-> 0, plain |-> NotDecoded,
               decoded |-> NotDecoded]

Encode ==
  /\ task.pc = "input"
  /\ task' = [task EXCEPT !.pc = "encoded", !.encoded = encodeBase64Utf8(task.s),
                          !.wire = encodeBase64Utf8(task.s)]
  /\ PageFrame

\* a line feed is put at position p of the text on the wire
InsertNewline(p) ==
  /\ task.pc = "encoded"
  /\ task.newlines < MaxNewlines
  /\ p \in 0..Len(task.wire)
  /\ task' = [task EXCEPT !.newlines = @ + 1,
                          !.wire = SubSeq(@, 1, p) \o <<"\n">>
                                     \o SubSeq(@, p + 1, Len(@))]
  /\ PageFrame

Decode ==
  /\ task.pc = "encoded"
  /\ task' = [task EXCEPT !.pc = "decoded",
                          !.plain = decodeBase64Utf8(task.encoded),
                          !.decoded = decodeBase64Utf8(task.wire)]
  /\ PageFrame

NextBase64 ==
  \/ Encode
  \/ \E p \in 0..(4 * (MaxUnits + 1)) : InsertNewline(p)
  \/ Decode

SpecBase64 == InitBase64 /\ [][NextBase64]_vars

\* C31 as stated: decoding the encoded text gives back every string, with
\* or without line feeds in the encoded text
C31_RoundTripEveryString ==
  task.pc = "decoded" =>
    /\ task.decoded = [thrown |-> FALSE, text |-> task.s]
    /\ task.decoded = task.plain

\* no unpaired surrogate in the string
WellFormed(s) ==
  \A j \in 1..Len(s) :
    /\ isHighSurrogate(s[j]) => j < Len(s) /\ isLowSurrogate(s[j + 1])
    /\ isLowSurrogate(s[j]) => j > 1 /\ isHighSurrogate(s[j - 1])
StartsWithBom(s) == Len(s) > 0 /\ s[1] = 65279

\* C31 (amended): decodeBase64Utf8(encodeBase64Utf8(s)) = s for every string
\* s without unpaired surrogate that does not begin with U+FEFF, and line
\* feeds put anywhere into the encoded text do not change what any string
\* decodes to
C31_RoundTripWellFormed ==
  task.pc = "decoded" =>
    /\ (WellFormed(task.s) /\ ~StartsWithBom(task.s))
         => task.decoded = [thrown |-> FALSE, text |-> task.s]
    /\ task.decoded = task.plain

\* an emoji, a surrogate pair that takes four bytes and eight characters,
\* has come back from a text with a line feed in it
C31_Witness ==
  /\ task.pc = "decoded"
  /\ task.newlines = 1
  /\ task.s = <<55356, 57203>>
  /\ task.decoded.text = task.s
  /\ Len(task.encoded) = 8

====
